---- MODULE Spec2Model ----
(***************************************************************************)
(* A model of the in-memory B+ tree of src/b+tree.c with its cursors.      *)
(*                                                                         *)
(* Memory is modelled word by word: a block is the array words[] of the    *)
(* source (header, keys, fields, NEXT), so that what the code leaves       *)
(* behind in the slots past num_keys is there to be read again.  Blocks    *)
(* come from mmap (USE_MMAP_ANON is defined in the source): a fresh block  *)
(* is zero-filled and a refused allocation yields MAP_FAILED, not NULL.    *)
(* The node size is scaled: ORDER is 2 * HalfOrder instead of 256, and the *)
(* layout constants follow from ORDER exactly as in the source.            *)
(* HalfOrder must be at least 3 (RHALF - 2 >= 1 in split_index).           *)
(***************************************************************************)
EXTENDS Integers, Sequences, FiniteSets, TLC

\* ---------------------------------------------------------------- bounds
HalfOrder == 3
MaxKey == 6
MaxVal == 2
MaxBlocks == 13
MaxCursors == 1
MaxDeletes == 2
MaxAlt == 1
MaxDeepKey == 26
MaxRegCursors == 2

Keys == 0 .. MaxKey
\* the keys of a caller that fills the tree until its root splits
DeepKeys == 0 .. MaxDeepKey
Vals == 1 .. MaxVal
Blocks == 1 .. MaxBlocks
CursorIds == 1 .. MaxCursors
\* the cursors of a caller that keeps several at a time
RegCursorIds == 1 .. MaxRegCursors

\* ------------------------------------------------------ program constants
ORDER == 2 * HalfOrder
LHALF == ORDER \div 2
RHALF == ORDER \div 2
HEADER == 0
KEY_0 == 1
FIELD_0 == ORDER
NEXT == 2 * ORDER - 1
NWORDS == 2 * ORDER

OK == 0
NOTFOUND == 1
NOMEM == 2

NULL == 0
MAP_FAILED == -1
USE_MMAP_ANON == TRUE
\* what an uninitialised word of malloc'ed memory is before it is written
UNINIT == -2

VARIABLES
    heap,       \* block id -> words[] of the block (zero page when unmapped)
    mapped,     \* the blocks currently mapped (allocated and not freed)
    b,          \* struct bplus
    cur,        \* cursor id -> struct bplus_cursor, for the live cursors
    fault,      \* "none", or the invalid memory access that ended the process
    contents,   \* history: key -> value of the latest successful insert, 0 if none or deleted since
    tomb,       \* history: cursor id -> the key deleted under the cursor, -1 if none
    ndel,       \* history: the successful deletes so far, counted up to MaxDeletes
    nalt        \* history: the successful writes of a value other than the first

vars == <<heap, mapped, b, cur, fault, contents, tomb, ndel, nalt>>

\* ---------------------------------------------------------------- memory
ZeroPage == [x \in 0 .. NWORDS - 1 |-> 0]

NullPath == [null |-> TRUE, split |-> <<>>]

\* the machine state the library functions work on
Machine == [heap |-> heap, mapped |-> mapped, b |-> b, cur |-> cur, fault |-> fault]

Min(S) == CHOOSE x \in S : \A y \in S : x <= y

\* F applied to x, a value computed once and then used in several places
Let(x, F(_)) == F(x)

Segv(m, what) == [m EXCEPT !.fault = IF m.fault = "none" THEN what ELSE m.fault]

\* alloc_page_for_block: mmap of one page; refused: MAP_FAILED under
\* USE_MMAP_ANON, NULL under aligned_alloc
alloc_page_for_block(m, refused) ==
    IF refused
    THEN [m |-> m, p |-> IF USE_MMAP_ANON THEN MAP_FAILED ELSE NULL]
    ELSE IF Blocks \ m.mapped = {}
    THEN [m |-> Segv(m, "bound"), p |-> MAP_FAILED]   \* more blocks than the model holds
    ELSE LET p == Min(Blocks \ m.mapped)
         IN  [m |-> [m EXCEPT !.mapped = @ \cup {p}, !.heap[p] = ZeroPage], p |-> p]

\* free_page_for_block: munmap; of an address that is no mapped block it
\* changes nothing
free_page_for_block(m, p) ==
    IF p \in m.mapped
    THEN [m EXCEPT !.mapped = @ \ {p}, !.heap[p] = ZeroPage]
    ELSE m

\* wrdmove/wrdcpy: copy nw words from block sp at si to block dp at di
wrdmove(m, dp, di, sp, si, nw) ==
    LET src == m.heap[sp]
    IN  [m EXCEPT !.heap[dp] =
            [x \in 0 .. NWORDS - 1 |->
                IF x >= di /\ x < di + nw THEN src[si + (x - di)] ELSE @[x]]]

SetWord(m, p, i, v) == [m EXCEPT !.heap[p][i] = v]

\* dp->words[di] = sp->words[si]
CopyWord(m, dp, di, sp, si) == SetWord(m, dp, di, m.heap[sp][si])

\* ------------------------------------------------------- block accessors
num_keys(m, p) == m.heap[p][HEADER]

get_key(m, p, i) == m.heap[p][KEY_0 + i]

get_child(m, p, i) == m.heap[p][FIELD_0 + i]

get_value(m, p, i) == m.heap[p][FIELD_0 + i]

next_leaf(m, p) == m.heap[p][NEXT]

\* a scan that never stops before the end of the leaf
scan_leaf_keys_end(m, p, k) == m.heap[p][HEADER]

\* index of the first key of the leaf that is >= k, else num_keys
scan_leaf_keys(m, p, k) ==
    LET nk == num_keys(m, p)
    IN  Min({i \in 0 .. nk - 1 : ~(k > get_key(m, p, i))} \cup {nk})

\* an index scan that sends a key equal to a splitter to the left child
scan_index_keys_strict(m, p, k) ==
    Min({i \in 0 .. m.heap[p][HEADER] - 1 : ~(k > m.heap[p][KEY_0 + i])} \cup {m.heap[p][HEADER]})

\* index of the first key of the node that is > k, else num_keys
scan_index_keys(m, p, k) ==
    LET nk == num_keys(m, p)
    IN  Min({i \in 0 .. nk - 1 : ~(k >= get_key(m, p, i))} \cup {nk})

\* ------------------------------------------------------------ the handle
\* new_bplus_tree: the root is one empty leaf
NewTree ==
    [root |-> 1, leaves |-> 1, depth |-> 0, cursor_list |-> <<>>,
     num_recs |-> 0, num_blks |-> 1, num_crsrs |-> 0,
     path_length |-> 0, path |-> NullPath, new_root |-> NULL]

\* path_reserved: grow the path array to depth frames; mallocOk is whether
\* malloc returns memory.  The frames of a new array are uninitialised.
path_reserved(m, mallocOk) ==
    IF m.b.path_length < m.b.depth
    THEN LET np == IF mallocOk
                   THEN [null |-> FALSE, split |-> [d \in 1 .. m.b.depth |-> UNINIT]]
                   ELSE NullPath
         IN  [m |-> [m EXCEPT !.b.path_length = m.b.depth, !.b.path = np],
              ok |-> IF mallocOk THEN OK ELSE NOMEM]
    ELSE [m |-> m, ok |-> OK]

\* find_leaf: descend from the root recording one frame per index level.
\* frames[d + 1] is path[d] of the source (node, pos, num_keys); the split
\* field of a frame outlives the call and is kept in b.path.
RECURSIVE find_leaf_from(_, _, _, _, _)
find_leaf_from(m, node, d, k, frames) ==
    IF d >= m.b.depth
    THEN [leaf |-> node, frames |-> frames, fault |-> "none"]
    ELSE IF m.b.path.null \/ d >= Len(m.b.path.split)
    THEN [leaf |-> node, frames |-> frames, fault |-> "path"]
    ELSE IF node \notin m.mapped
    THEN [leaf |-> node, frames |-> frames, fault |-> "node"]
    ELSE LET i == scan_index_keys(m, node, k)
             f == [node |-> node, pos |-> i, num_keys |-> num_keys(m, node)]
         IN  find_leaf_from(m, get_child(m, node, i), d + 1, k, Append(frames, f))

find_leaf(m, k) ==
    LET r == find_leaf_from(m, m.b.root, 0, k, <<>>)
    IN  IF r.fault = "none" /\ r.leaf \notin m.mapped
        THEN [r EXCEPT !.fault = "node"]
        ELSE r


\* ---------------------------------------------------------------- insert
set_num_keys(m, p, n) == SetWord(m, p, HEADER, n % 256)

\* p->words[HEADER].header.num_keys += n
add_num_keys(m, p, n) == set_num_keys(m, p, m.heap[p][HEADER] + n)

\* the live cursors of the tree's list that satisfy a test are rewritten
InList(m, c) == \E x \in 1 .. Len(m.b.cursor_list) : m.b.cursor_list[x] = c

\* insert_into_leaf: open slot i, store (key, v), move the cursors at or
\* after i one to the right
insert_into_leaf(m, leaf, i, key, v) ==
    LET nk == num_keys(m, leaf)
        m1 == IF nk - i # 0
              THEN wrdmove(wrdmove(m, leaf, KEY_0 + i + 1, leaf, KEY_0 + i, nk - i),
                           leaf, FIELD_0 + i + 1, leaf, FIELD_0 + i, nk - i)
              ELSE m
        m2 == set_num_keys(SetWord(SetWord(m1, leaf, KEY_0 + i, key), leaf, FIELD_0 + i, v),
                           leaf, nk + 1)
    IN  [m2 EXCEPT !.cur =
            [c \in DOMAIN @ |->
                IF InList(m, c) /\ @[c].leaf = leaf /\ @[c].pos >= i
                THEN [@[c] EXCEPT !.pos = @ + 1]
                ELSE @[c]]]

\* insert_split_into_index: key at i, child at i + 1
insert_split_into_index(m, node, i, key, child) ==
    LET nk == num_keys(m, node)
        m1 == IF nk - i # 0
              THEN wrdmove(wrdmove(m, node, KEY_0 + i + 1, node, KEY_0 + i, nk - i),
                           node, FIELD_0 + i + 2, node, FIELD_0 + i + 1, nk - i)
              ELSE m
    IN  set_num_keys(SetWord(SetWord(m1, node, KEY_0 + i, key), node, FIELD_0 + i + 1, child),
                     node, nk + 1)

\* a copy loop that comes back to the left node one slot short
SplitStep_short(st, parent) ==
    IF st.j = 0
    THEN [st EXCEPT !.dnode = parent, !.j = LHALF - 1]
    ELSE [st EXCEPT !.j = @ - 1]

\* split_index, the CAREFUL copy loops.  st is the loop state: the machine,
\* the target node dnode and the target position j; i is the source
\* position in parent, counted down.
SplitStep(st, parent) ==
    IF st.j = 0
    THEN [st EXCEPT !.dnode = parent, !.j = LHALF]
    ELSE [st EXCEPT !.j = @ - 1]

RECURSIVE split_index_children(_, _, _, _, _)
split_index_children(st, parent, pos, new, i) ==
    IF i < 0 \/ (i < pos /\ i < LHALF + 1)
    THEN st
    ELSE LET s1 == SplitStep([st EXCEPT !.m = SetWord(@, st.dnode, FIELD_0 + st.j,
                                                    st.m.heap[parent][FIELD_0 + i])], parent)
             s2 == IF i = pos + 1
                   THEN SplitStep([s1 EXCEPT !.m = SetWord(@, s1.dnode, FIELD_0 + s1.j, new)],
                                  parent)
                   ELSE s1
         IN  split_index_children(s2, parent, pos, new, i - 1)

RECURSIVE split_index_keys(_, _, _, _, _)
split_index_keys(st, parent, pos, k, i) ==
    IF i < 0 \/ (i < pos /\ i < LHALF)
    THEN st
    ELSE LET s1 == SplitStep([st EXCEPT !.m = SetWord(@, st.dnode, KEY_0 + st.j,
                                                    st.m.heap[parent][KEY_0 + i])], parent)
             s2 == IF i = pos
                   THEN SplitStep([s1 EXCEPT !.m = SetWord(@, s1.dnode, KEY_0 + s1.j, k)],
                                  parent)
                   ELSE s1
         IN  split_index_keys(s2, parent, pos, k, i - 1)

\* split_index: returns the machine and the promoted key
split_index(m, parent, newp, pos, k, new) ==
    IF newp \notin m.mapped
    THEN [m |-> Segv(m, "split_index"), k |-> k]
    ELSE
    LET m0 == set_num_keys(set_num_keys(m, parent, LHALF), newp, RHALF - 1)
        c0 == IF pos = ORDER - 1
              THEN [m |-> SetWord(m0, newp, FIELD_0 + RHALF - 1, new),
                    dnode |-> newp, j |-> RHALF - 2]
              ELSE [m |-> m0, dnode |-> newp, j |-> RHALF - 1]
        c1 == split_index_children(c0, parent, pos, new, ORDER - 1)
        k0 == IF pos = ORDER - 1
              THEN [m |-> SetWord(c1.m, newp, KEY_0 + RHALF - 2, k),
                    dnode |-> newp, j |-> RHALF - 3]
              ELSE [m |-> c1.m, dnode |-> newp, j |-> RHALF - 2]
        k1 == split_index_keys(k0, parent, pos, k, ORDER - 2)
    IN  [m |-> k1.m, k |-> k1.m.heap[parent][KEY_0 + LHALF]]

\* split_leaf when the key goes to the left result node
split_leaf_left(m, leaf, new, i, k, v) ==
    LET a == wrdmove(wrdmove(m, new, KEY_0, leaf, KEY_0 + LHALF - 1, RHALF),
                     new, FIELD_0, leaf, FIELD_0 + LHALF - 1, RHALF)
        c == wrdmove(wrdmove(a, leaf, KEY_0 + i + 1, leaf, KEY_0 + i, LHALF - 1 - i),
                     leaf, FIELD_0 + i + 1, leaf, FIELD_0 + i, LHALF - 1 - i)
    IN  SetWord(SetWord(IF LHALF - 1 - i # 0 THEN c ELSE a, leaf, KEY_0 + i, k),
                leaf, FIELD_0 + i, v)

\* split_leaf when the key goes to the right result node: the records after
\* the key are copied last
split_leaf_tail(m, leaf, new, i) ==
    IF ORDER - 1 - i # 0
    THEN wrdmove(wrdmove(m, new, KEY_0 + i + 1 - LHALF, leaf, KEY_0 + i, ORDER - 1 - i),
                 new, FIELD_0 + i + 1 - LHALF, leaf, FIELD_0 + i, ORDER - 1 - i)
    ELSE m

split_leaf_right(m, leaf, new, i, k, v) ==
    LET a == wrdmove(wrdmove(m, new, KEY_0, leaf, KEY_0 + LHALF, i - LHALF),
                     new, FIELD_0, leaf, FIELD_0 + LHALF, i - LHALF)
    IN  split_leaf_tail(SetWord(SetWord(IF i > LHALF THEN a ELSE m,
                                        new, KEY_0 + i - LHALF, k),
                                new, FIELD_0 + i - LHALF, v),
                        leaf, new, i)

\* split_leaf, its loop over the cursors: the position moves, the leaf stays
split_leaf_cursors(m, leaf, i) ==
    LET f(bc) == IF bc.leaf = leaf
                 THEN LET p1 == IF bc.pos >= i THEN bc.pos + 1 ELSE bc.pos
                      IN  [bc EXCEPT !.pos = IF p1 >= LHALF THEN p1 - LHALF ELSE p1]
                 ELSE bc
    IN  [m EXCEPT !.cur = [c \in DOMAIN @ |-> IF InList(m, c) THEN f(@[c]) ELSE @[c]]]

\* split_leaf: returns the machine and the promoted key (the first key of new)
split_leaf(m, leaf, new, i, k, v) ==
    IF new \notin m.mapped
    THEN [m |-> Segv(m, "split_leaf"), k |-> k]
    ELSE
    LET m0 == set_num_keys(set_num_keys(m, leaf, LHALF), new, RHALF)
        m1 == SetWord(CopyWord(m0, new, NEXT, leaf, NEXT), leaf, NEXT, new)
    IN  Let(IF i < LHALF
            THEN split_leaf_left(m1, leaf, new, i, k, v)
            ELSE split_leaf_right(m1, leaf, new, i, k, v),
            LAMBDA m2 : [m |-> split_leaf_cursors(m2, leaf, i), k |-> get_key(m2, new, 0)])

\* add_root_block: the preallocated new_root gets one key and two children
add_root_block(m, left_child, k, right_child) ==
    LET new == m.b.new_root
    IN  IF new \notin m.mapped
        THEN Segv(m, "add_root_block")
        ELSE LET m1 == SetWord(SetWord(SetWord(set_num_keys(m, new, 1), new, KEY_0, k),
                                       new, FIELD_0, left_child),
                               new, FIELD_0 + 1, right_child)
             IN  [m1 EXCEPT !.b.root = new, !.b.depth = @ + 1]

\* insert_new_leaf: walk the frames upwards (d counts down from depth)
RECURSIVE insert_new_leaf(_, _, _, _, _)
insert_new_leaf(m, frames, new, k, d) ==
    IF m.fault # "none"
    THEN m
    ELSE IF d = 0
    THEN add_root_block(m, m.b.root, k, new)
    ELSE LET parent == frames[d].node
             i == frames[d].pos
         IN  IF num_keys(m, parent) < ORDER - 1
             THEN insert_split_into_index(m, parent, i, k, new)
             ELSE Let(split_index(m, parent, m.b.path.split[d], i, k, new),
                      LAMBDA r : insert_new_leaf(r.m, frames, m.b.path.split[d], r.k, d - 1))


\* an uninitialised pointer reads as whatever the memory held: u
Resolve(p, u) == IF p = UNINIT THEN u ELSE p

\* free_preallocated_splits: d is the source's d (path[d] is split[d + 1])
RECURSIVE free_path_splits(_, _, _)
free_path_splits(m, d, u) ==
    IF d >= m.b.depth
    THEN m
    ELSE free_path_splits(free_page_for_block(m, Resolve(m.b.path.split[d + 1], u)), d + 1, u)

free_preallocated_splits(m, d, u) ==
    free_path_splits(IF d = 0 /\ m.b.new_root # NULL
                     THEN free_page_for_block(m, m.b.new_root)
                     ELSE m,
                     d, u)

\* the first loop of preallocate_splits; d is the source's d at the loop
\* test, n the number of allocations made, refuseAt the number of the
\* allocation that is refused (0: none)
RECURSIVE prealloc_loop(_, _, _, _, _)
prealloc_loop(m, frames, d, n, refuseAt) ==
    IF d = 0
    THEN [m |-> m, d |-> 0, n |-> n, failed |-> FALSE]
    ELSE IF frames[d].num_keys # ORDER - 1
    THEN [m |-> m, d |-> d - 1, n |-> n, failed |-> FALSE]
    ELSE LET a == alloc_page_for_block(m, refuseAt = n + 1)
             m1 == [a.m EXCEPT !.b.path.split[d] = a.p]
         IN  IF a.p = NULL
             THEN [m |-> m1, d |-> d - 1, n |-> n, failed |-> TRUE]
             ELSE prealloc_loop(m1, frames, d - 1, n + 1, refuseAt)

\* preallocate_splits from the allocation of the new leaf on: n allocations
\* were made before it
prealloc_leaf(m, d, n, refuseAt, u) ==
    Let(alloc_page_for_block(m, refuseAt = n + 1), LAMBDA a3 :
        IF a3.p = NULL
        THEN [m |-> free_preallocated_splits(a3.m, d, u), p |-> NULL]
        ELSE [m |-> [a3.m EXCEPT !.b.num_blks = @ + n + 1], p |-> a3.p])

\* preallocate_splits from the allocation of the new root on
prealloc_root(m, d, n, refuseAt, u) ==
    Let(alloc_page_for_block(m, refuseAt = n + 1), LAMBDA a2 :
        IF a2.p = NULL
        THEN [m |-> free_preallocated_splits([a2.m EXCEPT !.b.new_root = a2.p], d, u),
              p |-> NULL]
        ELSE prealloc_leaf([a2.m EXCEPT !.b.new_root = a2.p], d, n + 1, refuseAt, u))

\* preallocate_splits after its first loop, when every ancestor is full
prealloc_top(m, d, n, refuseAt, u) ==
    IF m.b.depth # 0
    THEN Let(alloc_page_for_block(m, refuseAt = n + 1), LAMBDA a1 :
             IF a1.p = NULL
             THEN [m |-> free_preallocated_splits(
                             [a1.m EXCEPT !.b.path.split[d + 1] = a1.p], d + 1, u),
                   p |-> NULL]
             ELSE prealloc_root([a1.m EXCEPT !.b.path.split[d + 1] = a1.p],
                                d, n + 1, refuseAt, u))
    ELSE prealloc_root(m, d, n, refuseAt, u)

\* preallocate_splits: returns the machine and the new leaf (NULL: gave up)
preallocate_splits(m, frames, refuseAt, u) ==
    Let(prealloc_loop([m EXCEPT !.b.new_root = NULL], frames, m.b.depth, 0, refuseAt),
        LAMBDA L :
        IF L.failed
        THEN [m |-> free_preallocated_splits(L.m, L.d + 1, u), p |-> NULL]
        ELSE IF m.b.depth = 0 \/ (L.d = 0 /\ frames[1].num_keys = ORDER - 1)
        THEN prealloc_top(L.m, L.d, L.n, refuseAt, u)
        ELSE prealloc_leaf(L.m, L.d, L.n, refuseAt, u))

\* insert once the leaf is known to be full
insert_split(m, frames, leaf, i, k, v, refuseAt, u) ==
    Let(preallocate_splits(m, frames, refuseAt, u), LAMBDA pa :
        IF pa.p = NULL
        THEN [m |-> pa.m, ret |-> NOMEM]
        ELSE Let(split_leaf(pa.m, leaf, pa.p, i, k, v), LAMBDA sl :
                 [m |-> [insert_new_leaf(sl.m, frames, pa.p, sl.k, sl.m.b.depth)
                            EXCEPT !.b.num_recs = @ + 1],
                  ret |-> OK]))

\* an insert that counts a record also when it only overwrites a value
insert_at_overcount(m, frames, leaf, k, v, refuseAt, u) ==
    LET nk == num_keys(m, leaf)
        i == scan_leaf_keys(m, leaf, k)
    IN  IF i < nk /\ get_key(m, leaf, i) = k
        THEN [m |-> [SetWord(m, leaf, FIELD_0 + i, v) EXCEPT !.b.num_recs = @ + 1],
              ret |-> OK]
        ELSE IF nk < ORDER - 1
        THEN [m |-> [insert_into_leaf(m, leaf, i, k, v) EXCEPT !.b.num_recs = @ + 1],
              ret |-> OK]
        ELSE insert_split(m, frames, leaf, i, k, v, refuseAt, u)

\* insert once the leaf is found
insert_at(m, frames, leaf, k, v, refuseAt, u) ==
    LET nk == num_keys(m, leaf)
        i == scan_leaf_keys(m, leaf, k)
    IN  IF i < nk /\ get_key(m, leaf, i) = k
        THEN [m |-> SetWord(m, leaf, FIELD_0 + i, v), ret |-> OK]
        ELSE IF nk < ORDER - 1
        THEN [m |-> [insert_into_leaf(m, leaf, i, k, v) EXCEPT !.b.num_recs = @ + 1],
              ret |-> OK]
        ELSE insert_split(m, frames, leaf, i, k, v, refuseAt, u)

\* insert: returns the machine and the status
insert(m, k, v, mallocOk, refuseAt, u) ==
    Let(path_reserved(m, mallocOk), LAMBDA r :
        IF r.ok # OK
        THEN [m |-> r.m, ret |-> r.ok]
        ELSE Let(find_leaf(r.m, k), LAMBDA fl :
                 IF fl.fault # "none"
                 THEN [m |-> Segv(r.m, "find_leaf"), ret |-> OK]
                 ELSE insert_at(r.m, fl.frames, fl.leaf, k, v, refuseAt, u)))


\* ---------------------------------------------------------------- delete
\* fix_cursor_rotate_left: one item went from the front of rpeer to the end of leaf
fix_cursor_rotate_left(m, leaf, rpeer) ==
    LET f(bc) == IF bc.leaf = rpeer
                 THEN IF bc.pos = 0
                      THEN [bc EXCEPT !.leaf = leaf, !.pos = num_keys(m, leaf) - 1]
                      ELSE [bc EXCEPT !.pos = @ - 1]
                 ELSE bc
    IN  [m EXCEPT !.cur = [c \in DOMAIN @ |-> IF InList(m, c) THEN f(@[c]) ELSE @[c]]]

\* fix_cursor_rotate_right: one item went from the end of lpeer to the front of leaf
fix_cursor_rotate_right(m, lpeer, leaf) ==
    LET f(bc) == IF bc.leaf = leaf
                 THEN [bc EXCEPT !.pos = @ + 1]
                 ELSE IF bc.leaf = lpeer /\ bc.pos = num_keys(m, lpeer)
                 THEN [bc EXCEPT !.leaf = leaf, !.pos = 0]
                 ELSE bc
    IN  [m EXCEPT !.cur = [c \in DOMAIN @ |-> IF InList(m, c) THEN f(@[c]) ELSE @[c]]]

\* a merge that leaves the cursors of the freed peer where they were
fix_cursor_merge_none(m, leaf, peer, nkl) == m

\* fix_cursor_merge: peer was appended to leaf, which had nkl records
fix_cursor_merge(m, leaf, peer, nkl) ==
    LET f(bc) == IF bc.leaf = peer
                 THEN [bc EXCEPT !.leaf = leaf, !.pos = @ + nkl]
                 ELSE bc
    IN  [m EXCEPT !.cur = [c \in DOMAIN @ |-> IF InList(m, c) THEN f(@[c]) ELSE @[c]]]

merge_index_nodes(m, l, r, s) ==
    LET nkl == num_keys(m, l)
        nkr == num_keys(m, r)
        m1 == SetWord(m, l, KEY_0 + nkl, s)
        m2 == wrdmove(m1, l, KEY_0 + nkl + 1, r, KEY_0, nkr)
        m3 == wrdmove(m2, l, FIELD_0 + nkl + 1, r, FIELD_0, nkr + 1)
        m4 == set_num_keys(m3, l, nkl + nkr + 1)
    IN  [free_page_for_block(m4, r) EXCEPT !.b.num_blks = @ - 1]

\* a rotation from the right peer that leaves the key of the parent as it was
index_rotate_left_keep(m, parent, pos, inode, nki, rpeer, nkr) ==
    LET m1 == CopyWord(m, inode, KEY_0 + nki, parent, KEY_0 + pos)
        m3 == CopyWord(m1, inode, FIELD_0 + nki + 1, rpeer, FIELD_0)
        m4 == wrdmove(m3, rpeer, KEY_0, rpeer, KEY_0 + 1, nkr - 1)
        m5 == wrdmove(m4, rpeer, FIELD_0, rpeer, FIELD_0 + 1, nkr)
    IN  add_num_keys(add_num_keys(m5, inode, 1), rpeer, -1)

\* index_underflow, rotation from the right peer through the parent
index_rotate_left(m, parent, pos, inode, nki, rpeer, nkr) ==
    LET m1 == CopyWord(m, inode, KEY_0 + nki, parent, KEY_0 + pos)
        m2 == CopyWord(m1, parent, KEY_0 + pos, rpeer, KEY_0)
        m3 == CopyWord(m2, inode, FIELD_0 + nki + 1, rpeer, FIELD_0)
        m4 == wrdmove(m3, rpeer, KEY_0, rpeer, KEY_0 + 1, nkr - 1)
        m5 == wrdmove(m4, rpeer, FIELD_0, rpeer, FIELD_0 + 1, nkr)
    IN  add_num_keys(add_num_keys(m5, inode, 1), rpeer, -1)

\* index_underflow, rotation from the left peer through the parent
index_rotate_right(m, parent, pos, inode, nki, lpeer, nkl) ==
    LET m1 == wrdmove(m, inode, KEY_0 + 1, inode, KEY_0, nki)
        m2 == wrdmove(m1, inode, FIELD_0 + 1, inode, FIELD_0, nki + 1)
        m3 == CopyWord(m2, inode, KEY_0, parent, KEY_0 + pos - 1)
        m4 == CopyWord(m3, parent, KEY_0 + pos - 1, lpeer, KEY_0 + nkl - 1)
        m5 == CopyWord(m4, inode, FIELD_0, lpeer, FIELD_0 + nkl)
    IN  add_num_keys(add_num_keys(m5, inode, 1), lpeer, -1)

\* index_underflow: inode, the child at frames[d + 1].pos of path[d], has too
\* few keys.  Returns the machine, whether nodes were merged, and the
\* position to remove from path[d].
index_underflow(m, frames, d, inode) ==
    LET parent == frames[d + 1].node
        pos == frames[d + 1].pos
        nkp == frames[d + 1].num_keys
        nki == num_keys(m, inode)
        rpeer == IF pos < nkp THEN get_child(m, parent, pos + 1) ELSE NULL
        lpeer == IF pos > 0 THEN get_child(m, parent, pos - 1) ELSE NULL
    IN  IF pos < nkp /\ rpeer \notin m.mapped
        THEN [m |-> Segv(m, "index_underflow"), merged |-> FALSE, pos |-> pos]
        ELSE IF pos < nkp /\ nki + num_keys(m, rpeer) > ORDER - 2
        THEN [m |-> index_rotate_left(m, parent, pos, inode, nki, rpeer, num_keys(m, rpeer)),
              merged |-> FALSE, pos |-> pos]
        ELSE IF pos > 0
        THEN IF lpeer \notin m.mapped
             THEN [m |-> Segv(m, "index_underflow"), merged |-> FALSE, pos |-> pos]
             ELSE IF num_keys(m, lpeer) + nki > ORDER - 2
             THEN [m |-> index_rotate_right(m, parent, pos, inode, nki, lpeer,
                                            num_keys(m, lpeer)),
                   merged |-> FALSE, pos |-> pos]
             ELSE [m |-> merge_index_nodes(m, lpeer, inode, get_key(m, parent, pos - 1)),
                   merged |-> TRUE, pos |-> pos]
        ELSE IF rpeer \notin m.mapped
        THEN [m |-> Segv(m, "index_underflow"), merged |-> FALSE, pos |-> pos]
        ELSE [m |-> merge_index_nodes(m, inode, rpeer, get_key(m, parent, pos)),
              merged |-> TRUE, pos |-> pos + 1]

\* a root that stays in place when it is left without keys
shrink_root_keep(m, inode, nk) == m

\* shrink_index_ancestors at the root: an index root left without keys gives
\* way to its only child
shrink_root(m, inode, nk) ==
    IF nk = 0
    THEN Let([free_page_for_block(m, inode) EXCEPT !.b.root = get_child(m, inode, 0),
                                                   !.b.depth = @ - 1,
                                                   !.b.num_blks = @ - 1],
             LAMBDA m3 : IF m3.b.depth = 0
                         THEN [m3 EXCEPT !.b.path_length = 0, !.b.path = NullPath]
                         ELSE m3)
    ELSE m

\* shrink_index_ancestors: remove key pos - 1 and child pos from path[d]
RECURSIVE shrink_index_ancestors(_, _, _, _)
shrink_index_ancestors(m, frames, d, pos) ==
    LET inode == frames[d + 1].node
        nk0 == frames[d + 1].num_keys
        m1 == IF nk0 - pos > 0
              THEN wrdmove(wrdmove(m, inode, KEY_0 + pos - 1, inode, KEY_0 + pos, nk0 - pos),
                           inode, FIELD_0 + pos, inode, FIELD_0 + pos + 1, nk0 - pos)
              ELSE m
        nk == nk0 - 1
    IN  IF m.fault # "none"
        THEN m
        ELSE IF pos > nk0
        THEN Segv(m, "shrink_index_ancestors")  \* nk - pos is unsigned: a move of 2^32 words
        ELSE IF d = 0
        THEN shrink_root(set_num_keys(m1, inode, nk), inode, nk)
        ELSE IF nk < LHALF
        THEN Let(index_underflow(set_num_keys(m1, inode, nk), frames, d - 1, inode),
                 LAMBDA r : IF r.merged
                            THEN shrink_index_ancestors(r.m, frames, d - 1, r.pos)
                            ELSE r.m)
        ELSE set_num_keys(m1, inode, nk)

\* a merge that leaves the successor of the left leaf as it was
merge_leaf_nodes_unlinked(m, l, r) ==
    LET nkl == m.heap[l][HEADER]
        nkr == m.heap[r][HEADER]
        m1 == wrdmove(m, l, KEY_0 + nkl, r, KEY_0, nkr)
        m2 == wrdmove(m1, l, FIELD_0 + nkl, r, FIELD_0, nkr)
        m3 == set_num_keys(m2, l, nkl + nkr)
        m5 == fix_cursor_merge(m3, l, r, nkl)
    IN  [free_page_for_block(m5, r) EXCEPT !.b.num_blks = @ - 1]

merge_leaf_nodes(m, l, r) ==
    LET nkl == num_keys(m, l)
        nkr == num_keys(m, r)
        m1 == wrdmove(m, l, KEY_0 + nkl, r, KEY_0, nkr)
        m2 == wrdmove(m1, l, FIELD_0 + nkl, r, FIELD_0, nkr)
        m3 == set_num_keys(m2, l, nkl + nkr)
        m4 == SetWord(m3, l, NEXT, next_leaf(m3, r))
        m5 == fix_cursor_merge(m4, l, r, nkl)
    IN  [free_page_for_block(m5, r) EXCEPT !.b.num_blks = @ - 1]

\* leaf_underflow, rotation of the first record of rpeer to the end of leaf
leaf_rotate_left(m, parent, pos, leaf, rpeer) ==
    LET nkr == num_keys(m, rpeer)
        m1 == CopyWord(m, leaf, KEY_0 + LHALF - 1, rpeer, KEY_0)
        m2 == CopyWord(m1, leaf, FIELD_0 + LHALF - 1, rpeer, FIELD_0)
        m3 == wrdmove(m2, rpeer, KEY_0, rpeer, KEY_0 + 1, nkr - 1)
        m4 == wrdmove(m3, rpeer, FIELD_0, rpeer, FIELD_0 + 1, nkr - 1)
        m5 == add_num_keys(add_num_keys(m4, leaf, 1), rpeer, -1)
        m6 == CopyWord(m5, parent, KEY_0 + pos, rpeer, KEY_0)
    IN  fix_cursor_rotate_left(m6, leaf, rpeer)

\* a rotation from the left peer that leaves the key of the parent as it was
leaf_rotate_right_stale(m, parent, pos, leaf, lpeer) ==
    LET nkl == m.heap[lpeer][HEADER]
        nkf == m.heap[leaf][HEADER]
        m1 == wrdmove(m, leaf, KEY_0 + 1, leaf, KEY_0, nkf)
        m2 == wrdmove(m1, leaf, FIELD_0 + 1, leaf, FIELD_0, nkf)
        m3 == CopyWord(m2, leaf, KEY_0, lpeer, KEY_0 + nkl - 1)
        m4 == CopyWord(m3, leaf, FIELD_0, lpeer, FIELD_0 + nkl - 1)
        m5 == add_num_keys(add_num_keys(m4, leaf, 1), lpeer, -1)
    IN  fix_cursor_rotate_right(m5, lpeer, leaf)

\* leaf_underflow, rotation of the last record of lpeer to the front of leaf
leaf_rotate_right(m, parent, pos, leaf, lpeer) ==
    LET nkl == num_keys(m, lpeer)
        nkf == num_keys(m, leaf)
        m1 == wrdmove(m, leaf, KEY_0 + 1, leaf, KEY_0, nkf)
        m2 == wrdmove(m1, leaf, FIELD_0 + 1, leaf, FIELD_0, nkf)
        m3 == CopyWord(m2, leaf, KEY_0, lpeer, KEY_0 + nkl - 1)
        m4 == CopyWord(m3, leaf, FIELD_0, lpeer, FIELD_0 + nkl - 1)
        m5 == add_num_keys(add_num_keys(m4, leaf, 1), lpeer, -1)
        m6 == CopyWord(m5, parent, KEY_0 + pos - 1, leaf, KEY_0)
    IN  fix_cursor_rotate_right(m6, lpeer, leaf)

\* an underflow that looks at the left peer before the right peer
leaf_underflow_left_first(m, frames, leaf) ==
    LET d == m.b.depth - 1
        parent == frames[d + 1].node
        pos == frames[d + 1].pos
        nk == frames[d + 1].num_keys
        rpeer == IF pos < nk THEN m.heap[parent][FIELD_0 + pos + 1] ELSE NULL
        lpeer == IF pos > 0 THEN m.heap[parent][FIELD_0 + pos - 1] ELSE NULL
    IN  IF pos > 0 /\ m.heap[lpeer][HEADER] > LHALF
        THEN leaf_rotate_right(m, parent, pos, leaf, lpeer)
        ELSE IF pos < nk /\ m.heap[rpeer][HEADER] > LHALF
        THEN leaf_rotate_left(m, parent, pos, leaf, rpeer)
        ELSE shrink_index_ancestors(
                 IF pos > 0 THEN merge_leaf_nodes(m, lpeer, leaf)
                            ELSE merge_leaf_nodes(m, leaf, rpeer),
                 frames, d, IF pos > 0 THEN pos ELSE pos + 1)

\* leaf_underflow: rotate from the right peer, else from the left peer, else merge
leaf_underflow(m, frames, leaf) ==
    LET d == m.b.depth - 1
        parent == frames[d + 1].node
        pos == frames[d + 1].pos
        nk == frames[d + 1].num_keys
        rpeer == IF pos < nk THEN get_child(m, parent, pos + 1) ELSE NULL
        lpeer == IF pos > 0 THEN get_child(m, parent, pos - 1) ELSE NULL
    IN  IF pos < nk /\ rpeer \notin m.mapped
        THEN Segv(m, "leaf_underflow")
        ELSE IF pos < nk /\ num_keys(m, rpeer) > LHALF
        THEN leaf_rotate_left(m, parent, pos, leaf, rpeer)
        ELSE IF (IF pos > 0 THEN lpeer ELSE rpeer) \notin m.mapped
        THEN Segv(m, "leaf_underflow")
        ELSE IF pos > 0 /\ num_keys(m, lpeer) > LHALF
        THEN leaf_rotate_right(m, parent, pos, leaf, lpeer)
        ELSE shrink_index_ancestors(
                 IF pos > 0 THEN merge_leaf_nodes(m, lpeer, leaf)
                            ELSE merge_leaf_nodes(m, leaf, rpeer),
                 frames, d, IF pos > 0 THEN pos ELSE pos + 1)

\* a delete that leaves a leaf with too few records as it is
delete_at_no_underflow(m, frames, leaf, k) ==
    LET nk == m.heap[leaf][HEADER]
        i == scan_leaf_keys(m, leaf, k)
        m1 == IF nk - i - 1 # 0
              THEN wrdmove(wrdmove(m, leaf, KEY_0 + i, leaf, KEY_0 + i + 1, nk - i - 1),
                           leaf, FIELD_0 + i, leaf, FIELD_0 + i + 1, nk - i - 1)
              ELSE m
    IN  IF i < nk /\ m.heap[leaf][KEY_0 + i] = k
        THEN [m |-> [set_num_keys(m1, leaf, nk - 1) EXCEPT !.b.num_recs = @ - 1], ret |-> OK]
        ELSE [m |-> m, ret |-> NOTFOUND]

\* delete once the leaf is found
delete_at(m, frames, leaf, k) ==
    LET nk == num_keys(m, leaf)
        i == scan_leaf_keys(m, leaf, k)
        sfx_count == nk - i - 1
        m1 == IF sfx_count # 0
              THEN wrdmove(wrdmove(m, leaf, KEY_0 + i, leaf, KEY_0 + i + 1, sfx_count),
                           leaf, FIELD_0 + i, leaf, FIELD_0 + i + 1, sfx_count)
              ELSE m
        m2 == [set_num_keys(m1, leaf, nk - 1) EXCEPT !.b.num_recs = @ - 1]
        f(bc) == IF bc.leaf = leaf
                 THEN IF bc.pos = i
                      THEN [bc EXCEPT !.invalid = 1]
                      ELSE IF bc.pos > i
                      THEN [bc EXCEPT !.pos = @ - 1]
                      ELSE bc
                 ELSE bc
        m3 == [m2 EXCEPT !.cur = [c \in DOMAIN @ |-> IF InList(m, c) THEN f(@[c]) ELSE @[c]]]
    IN  IF i < nk /\ get_key(m, leaf, i) = k
        THEN [m |-> IF m.b.depth > 0 /\ nk <= LHALF
                    THEN leaf_underflow(m3, frames, leaf)
                    ELSE m3,
              ret |-> OK]
        ELSE [m |-> m, ret |-> NOTFOUND]

\* delete: returns the machine and the status
delete(m, k, mallocOk) ==
    Let(path_reserved(m, mallocOk), LAMBDA r :
        IF r.ok # OK
        THEN [m |-> r.m, ret |-> r.ok]
        ELSE Let(find_leaf(r.m, k), LAMBDA fl :
                 IF fl.fault # "none"
                 THEN [m |-> Segv(r.m, "find_leaf"), ret |-> OK]
                 ELSE delete_at(r.m, fl.frames, fl.leaf, k)))


\* ------------------------------------------------------- find, enumerate
\* find: returns the machine, the status and the value stored in *v
find(m, k, mallocOk) ==
    IF m.b.root # NULL
    THEN Let(path_reserved(m, mallocOk), LAMBDA r :
             IF r.ok # OK
             THEN [m |-> r.m, ret |-> r.ok, v |-> 0]
             ELSE Let(find_leaf(r.m, k), LAMBDA fl :
                      IF fl.fault # "none"
                      THEN [m |-> Segv(r.m, "find_leaf"), ret |-> OK, v |-> 0]
                      ELSE LET i == scan_leaf_keys(r.m, fl.leaf, k)
                           IN  IF k = get_key(r.m, fl.leaf, i)
                               THEN [m |-> r.m, ret |-> OK, v |-> get_value(r.m, fl.leaf, i)]
                               ELSE [m |-> r.m, ret |-> NOTFOUND, v |-> 0]))
    ELSE [m |-> m, ret |-> NOTFOUND, v |-> 0]

\* enumerate: the calls f(k, v) made, in order, walking the leaf chain from
\* b.leaves; a chain that does not end within the blocks there are is cut
RECURSIVE enumerate_from(_, _, _, _)
enumerate_from(m, bk, acc, fuel) ==
    IF bk = NULL
    THEN [seq |-> acc, fault |-> "none"]
    ELSE IF bk \notin m.mapped
    THEN [seq |-> acc, fault |-> "enumerate"]
    ELSE IF fuel = 0
    THEN [seq |-> acc, fault |-> "loop"]
    ELSE enumerate_from(m, next_leaf(m, bk),
                        acc \o [i \in 1 .. num_keys(m, bk) |->
                                   <<get_key(m, bk, i - 1), get_value(m, bk, i - 1)>>],
                        fuel - 1)

enumerate(m) == enumerate_from(m, m.b.leaves, <<>>, MaxBlocks)

\* --------------------------------------------------------------- cursors
NoCursor == [tree |-> NULL, leaf |-> NULL, pos |-> 0, invalid |-> 0]

\* malloc(sizeof(struct bplus_cursor)): the cursors that are allocated
Allocated(m) == {c \in DOMAIN m.cur : m.cur[c].tree # NULL \/ InList(m, c)}

\* make_bplus_cursor: returns the machine and the cursor, NULL if malloc refused.
\* The tree handle is written 1 in cursor.tree.
make_bplus_cursor(m, leaf, pos, mallocOk) ==
    IF ~mallocOk
    THEN [m |-> m, c |-> NULL]
    ELSE LET c == Min(DOMAIN m.cur \ Allocated(m))
         IN  [m |-> [m EXCEPT !.b.num_crsrs = @ + 1,
                              !.b.cursor_list = <<c>> \o @,
                              !.cur[c] = [tree |-> 1, leaf |-> leaf, pos |-> pos,
                                          invalid |-> 0]],
              c |-> c]

\* a first_record that starts at the root instead of the first leaf
first_record_root(m, mallocOk) == make_bplus_cursor(m, m.b.root, 0, mallocOk)

first_record(m, mallocOk) == make_bplus_cursor(m, m.b.leaves, 0, mallocOk)

find_record(m, k, pathOk, mallocOk) ==
    IF m.b.root # NULL
    THEN Let(path_reserved(m, pathOk), LAMBDA r :
             IF r.ok = OK
             THEN Let(find_leaf(r.m, k), LAMBDA fl :
                      IF fl.fault # "none"
                      THEN [m |-> Segv(r.m, "find_leaf"), c |-> NULL]
                      ELSE make_bplus_cursor(r.m, fl.leaf, scan_leaf_keys(r.m, fl.leaf, k),
                                             mallocOk))
             ELSE [m |-> r.m, c |-> NULL])
    ELSE [m |-> m, c |-> NULL]

\* a next_record that steps forward also from a deleted record
next_record_advance(m, c) ==
    LET l == m.cur[c].leaf
        m1 == [m EXCEPT !.cur[c].invalid = 0, !.cur[c].pos = @ + 1]
    IN  IF l \notin m.mapped
        THEN [m |-> Segv(m1, "next_record"), ret |-> OK]
        ELSE IF m1.heap[l][HEADER] <= m1.cur[c].pos
        THEN [m |-> [m1 EXCEPT !.cur[c].leaf = m1.heap[l][NEXT], !.cur[c].pos = 0],
              ret |-> IF m1.heap[l][NEXT] # NULL THEN OK ELSE NOTFOUND]
        ELSE [m |-> m1, ret |-> OK]

next_record(m, c) ==
    LET l == m.cur[c].leaf
        m1 == IF m.cur[c].invalid # 0
              THEN [m EXCEPT !.cur[c].invalid = 0]
              ELSE [m EXCEPT !.cur[c].pos = @ + 1]
    IN  IF l \notin m.mapped
        THEN [m |-> Segv(m1, "next_record"), ret |-> OK]
        ELSE IF num_keys(m1, l) <= m1.cur[c].pos
        THEN LET nl == next_leaf(m1, l)
             IN  [m |-> [m1 EXCEPT !.cur[c].leaf = nl, !.cur[c].pos = 0],
                  ret |-> IF nl # NULL THEN OK ELSE NOTFOUND]
        ELSE [m |-> m1, ret |-> OK]

\* get_record: the status and the key and value stored in *k and *v
get_record(m, c) ==
    LET l == m.cur[c].leaf
        p == m.cur[c].pos
    IN  IF m.cur[c].invalid = 0 /\ l # NULL
        THEN IF l \notin m.mapped
             THEN [ret |-> OK, k |-> 0, v |-> 0, fault |-> "get_record"]
             ELSE IF num_keys(m, l) > p
             THEN [ret |-> OK, k |-> get_key(m, l, p), v |-> get_value(m, l, p),
                   fault |-> "none"]
             ELSE [ret |-> NOTFOUND, k |-> 0, v |-> 0, fault |-> "none"]
        ELSE [ret |-> NOTFOUND, k |-> 0, v |-> 0, fault |-> "none"]

\* an update_record that does not look at the invalid mark
update_record_unchecked(m, c, v) ==
    LET l == m.cur[c].leaf
        p == m.cur[c].pos
    IN  IF l \in m.mapped /\ m.heap[l][HEADER] > p
        THEN [m |-> SetWord(m, l, FIELD_0 + p, v), ret |-> OK]
        ELSE [m |-> m, ret |-> NOTFOUND]

update_record(m, c, v) ==
    LET l == m.cur[c].leaf
        p == m.cur[c].pos
    IN  IF m.cur[c].invalid = 0 /\ l # NULL
        THEN IF l \notin m.mapped
             THEN [m |-> Segv(m, "update_record"), ret |-> OK]
             ELSE IF num_keys(m, l) > p
             THEN [m |-> SetWord(m, l, FIELD_0 + p, v), ret |-> OK]
             ELSE [m |-> m, ret |-> NOTFOUND]
        ELSE [m |-> m, ret |-> NOTFOUND]

\* a free_cursor that unlinks the head of the list
free_cursor_head(m, c) ==
    IF m.cur[c].tree = NULL
    THEN Segv([m EXCEPT !.cur[c] = NoCursor], "free_cursor")
    ELSE [m EXCEPT !.b.cursor_list = IF @ = <<>> THEN @ ELSE Tail(@),
                   !.cur[c] = NoCursor,
                   !.b.num_crsrs = @ - 1]

\* free_cursor: unlink from the tree's list, free, count down
free_cursor(m, c) ==
    LET bt == m.cur[c].tree
        lst == m.b.cursor_list
        m1 == IF bt # NULL
              THEN [m EXCEPT !.b.cursor_list =
                       IF InList(m, c)
                       THEN LET x == Min({y \in 1 .. Len(lst) : lst[y] = c})
                            IN  SubSeq(lst, 1, x - 1) \o SubSeq(lst, x + 1, Len(lst))
                       ELSE lst]
              ELSE m
        m2 == [m1 EXCEPT !.cur[c] = NoCursor]
    IN  IF bt = NULL
        THEN Segv(m2, "free_cursor")
        ELSE [m2 EXCEPT !.b.num_crsrs = @ - 1]


\* get_active_storage: the counters of the handle
get_active_storage(m) ==
    [num_records |-> m.b.num_recs, num_blocks |-> m.b.num_blks, num_cursors |-> m.b.num_crsrs]

\* get_tree: the tree the cursor is on, NULL once the tree is torn down
get_tree(m, c) == m.cur[c].tree

\* free_index_subtree: free the subtree of blk, a node at level d, children
\* first (i is the child the loop is at), then the node itself
RECURSIVE free_index_subtree(_, _, _, _)
free_index_subtree(m, d, blk, i) ==
    IF m.fault # "none"
    THEN m
    ELSE IF d >= m.b.depth
    THEN [free_page_for_block(m, blk) EXCEPT !.b.num_blks = @ - 1]
    ELSE IF blk \notin m.mapped
    THEN Segv(m, "free_index_subtree")
    ELSE IF i <= num_keys(m, blk)
    THEN free_index_subtree(free_index_subtree(m, d + 1, get_child(m, blk, i), 0),
                            d, blk, i + 1)
    ELSE [free_page_for_block(m, blk) EXCEPT !.b.num_blks = @ - 1]

\* free_bplus_tree: the cursors of the list lose their tree, every node is
\* freed, the path array is freed; the handle keeps its root, leaves and
\* cursor list as they were
free_bplus_tree(m) ==
    free_index_subtree(
        [m EXCEPT !.cur = [c \in DOMAIN @ |->
                              IF InList(m, c) THEN [@[c] EXCEPT !.tree = NULL] ELSE @[c]]],
        0, m.b.root, 0)


\* -------------------------------------------------------- the state machine
\* new_bplus_tree has run: block 1 is the empty root leaf
Init ==
    /\ heap = [p \in Blocks |-> ZeroPage]
    /\ mapped = {1}
    /\ b = NewTree
    /\ cur = [c \in CursorIds |-> NoCursor]
    /\ fault = "none"
    /\ contents = [k \in DeepKeys |-> 0]
    /\ tomb = [c \in CursorIds |-> -1]
    /\ ndel = 0
    /\ nalt = 0

\* the call returned (or the process died in it): m is the machine after it
Commit(m) ==
    /\ m.fault # "bound"
    /\ IF m.fault # "none"
       THEN /\ fault' = m.fault
            /\ UNCHANGED <<heap, mapped, b, cur>>
       ELSE /\ heap' = m.heap
            /\ mapped' = m.mapped
            /\ b' = m.b
            /\ cur' = m.cur
            /\ UNCHANGED fault

\* whether malloc may be asked for a path array by the next call
PathMalloc == IF b.path_length < b.depth THEN BOOLEAN ELSE {TRUE}

\* the allocation of a split that may be refused (0: none), for an insert
\* of k that has to split a leaf
Refusals(k, mallocOk) ==
    LET r == path_reserved(Machine, mallocOk)
        fl == find_leaf(r.m, k)
    IN  IF r.ok = OK /\ fl.fault = "none" /\ num_keys(r.m, fl.leaf) = ORDER - 1
        THEN 0 .. b.depth + 3
        ELSE {0}

\* what an uninitialised split pointer may read as, where one can be read
UninitReads(refuseAt) ==
    IF refuseAt # 0 /\ ~b.path.null /\ \E d \in 1 .. Len(b.path.split) : b.path.split[d] = UNINIT
    THEN {NULL} \cup Blocks
    ELSE {NULL}

\* the cursors whose get_record returns key k
CursorsAt(k) ==
    {c \in Allocated(Machine) :
        LET g == get_record(Machine, c) IN g.fault = "none" /\ g.ret = OK /\ g.k = k}

\* the caller's first value; the others are budgeted by MaxAlt
FirstVal == Min(Vals)

Insert(k, v) ==
    /\ fault = "none"
    /\ v # FirstVal => nalt < MaxAlt
    /\ \E mallocOk \in PathMalloc :
       \E refuseAt \in Refusals(k, mallocOk) :
       \E u \in UninitReads(refuseAt) :
       \E r \in {insert(Machine, k, v, mallocOk, refuseAt, u)} :
          LET done == r.m.fault = "none" /\ r.ret = OK
          IN  /\ Commit(r.m)
              /\ contents' = IF done THEN [contents EXCEPT ![k] = v] ELSE contents
              /\ tomb' = IF done
                         THEN [c \in DOMAIN tomb |-> IF tomb[c] = k THEN -1 ELSE tomb[c]]
                         ELSE tomb
              /\ nalt' = IF done /\ v # FirstVal THEN nalt + 1 ELSE nalt
    /\ UNCHANGED ndel

Delete(k) ==
    /\ fault = "none"
    /\ ndel < MaxDeletes
    /\ \E mallocOk \in PathMalloc :
       \E r \in {delete(Machine, k, mallocOk)} :
          LET done == r.m.fault = "none" /\ r.ret = OK
              at == CursorsAt(k)
          IN  /\ Commit(r.m)
              /\ contents' = IF done THEN [contents EXCEPT ![k] = 0] ELSE contents
              /\ tomb' = IF done
                         THEN [c \in DOMAIN tomb |-> IF c \in at THEN k ELSE tomb[c]]
                         ELSE tomb
              /\ ndel' = IF done THEN ndel + 1 ELSE ndel
    /\ UNCHANGED nalt

Find(k) ==
    /\ fault = "none"
    /\ \E mallocOk \in PathMalloc : Commit(find(Machine, k, mallocOk).m)
    /\ UNCHANGED <<contents, tomb, ndel, nalt>>

Enumerate ==
    /\ fault = "none"
    /\ Commit([Machine EXCEPT !.fault = enumerate(Machine).fault])
    /\ UNCHANGED <<contents, tomb, ndel, nalt>>

FirstRecord ==
    /\ fault = "none"
    /\ DOMAIN cur \ Allocated(Machine) # {}
    /\ \E mallocOk \in BOOLEAN : Commit(first_record(Machine, mallocOk).m)
    /\ UNCHANGED <<contents, tomb, ndel, nalt>>

FindRecord(k) ==
    /\ fault = "none"
    /\ DOMAIN cur \ Allocated(Machine) # {}
    /\ \E pathOk \in PathMalloc, mallocOk \in BOOLEAN :
          Commit(find_record(Machine, k, pathOk, mallocOk).m)
    /\ UNCHANGED <<contents, tomb, ndel, nalt>>

NextRecord(c) ==
    /\ fault = "none"
    /\ c \in Allocated(Machine)
    /\ \E r \in {next_record(Machine, c)} :
           /\ Commit(r.m)
           /\ tomb' = IF r.m.fault = "none" THEN [tomb EXCEPT ![c] = -1] ELSE tomb
    /\ UNCHANGED <<contents, ndel, nalt>>

GetRecord(c) ==
    /\ fault = "none"
    /\ c \in Allocated(Machine)
    /\ Commit([Machine EXCEPT !.fault = get_record(Machine, c).fault])
    /\ UNCHANGED <<contents, tomb, ndel, nalt>>

UpdateRecord(c, v) ==
    /\ fault = "none"
    /\ c \in Allocated(Machine)
    /\ v # FirstVal => nalt < MaxAlt
    /\ \E r \in {update_record(Machine, c, v)} :
       LET g == get_record(Machine, c)
           done == r.m.fault = "none" /\ r.ret = OK
       IN  /\ Commit(r.m)
           /\ contents' = IF done THEN [contents EXCEPT ![g.k] = v] ELSE contents
           /\ nalt' = IF done /\ v # FirstVal THEN nalt + 1 ELSE nalt
    /\ UNCHANGED <<tomb, ndel>>

FreeCursor(c) ==
    /\ fault = "none"
    /\ c \in Allocated(Machine)
    /\ \E m \in {free_cursor(Machine, c)} :
           /\ Commit(m)
           /\ tomb' = IF m.fault = "none" THEN [tomb EXCEPT ![c] = -1] ELSE tomb
    /\ UNCHANGED <<contents, ndel, nalt>>

\* a caller that uses the tree without cursors
Next ==
    \/ \E k \in Keys, v \in Vals : Insert(k, v)
    \/ \E k \in Keys : Delete(k)
    \/ \E k \in Keys : Find(k)
    \/ Enumerate

Spec == Init /\ [][Next]_vars

\* a caller that walks the tree with cursors while it inserts and deletes
NextCursor ==
    \/ \E k \in Keys : Insert(k, FirstVal)
    \/ \E k \in Keys : Delete(k)
    \/ FirstRecord
    \/ \E k \in Keys : FindRecord(k)
    \/ \E c \in CursorIds : NextRecord(c)
    \/ \E c \in CursorIds : GetRecord(c)
    \/ \E c \in CursorIds : UpdateRecord(c, FirstVal)
    \/ \E c \in CursorIds : FreeCursor(c)

SpecCursor == Init /\ [][NextCursor]_vars

\* the keys in the tree of a caller that uses DeepKeys
PresentDeep == {k \in DeepKeys : contents[k] # 0}

Max(S) == CHOOSE x \in S : \A y \in S : x >= y

\* the keys next to the keys in the tree, at either end
GrowKeys ==
    IF PresentDeep = {}
    THEN {0, MaxDeepKey}
    ELSE {Max(PresentDeep) + 1, Min(PresentDeep) - 1} \cap DeepKeys

\* the lowest and the highest key in the tree
DropKeys ==
    IF PresentDeep = {} THEN {} ELSE {Min(PresentDeep), Max(PresentDeep)}

\* delete, by a caller that deletes as often as it likes
Drop(k) ==
    /\ fault = "none"
    /\ \E mallocOk \in PathMalloc :
       \E r \in {delete(Machine, k, mallocOk)} :
          LET done == r.m.fault = "none" /\ r.ret = OK
          IN  /\ Commit(r.m)
              /\ contents' = IF done THEN [contents EXCEPT ![k] = 0] ELSE contents
              /\ ndel' = IF done /\ ndel < MaxDeletes THEN ndel + 1 ELSE ndel
    /\ UNCHANGED <<tomb, nalt>>

\* a caller that grows the tree at one end until the root index splits and
\* then takes it down from its ends
NextDeep ==
    \/ \E k \in GrowKeys : ndel = 0 /\ Insert(k, FirstVal)
    \/ \E k \in DropKeys : Drop(k)

SpecDeep == Init /\ [][NextDeep]_vars

\* the inserts of the keys of seq, in order, with the caller's first value
\* and memory granted
RECURSIVE BuildSeq(_, _)
BuildSeq(m, seq) ==
    IF seq = <<>> \/ m.fault # "none"
    THEN m
    ELSE BuildSeq(insert(m, Head(seq), Min(Vals), TRUE, 0, NULL).m, Tail(seq))

\* the first key of leaf j of a tree of ORDER leaves in which the keys of
\* leaf p are followed by LHALF keys not yet used
LeafBase(p, j) == LHALF * j + (IF j > p THEN LHALF ELSE 0)

\* the keys that fill ORDER leaves to LHALF records each, ascending
BaseKeys(p) == [x \in 1 .. LHALF * ORDER |-> LeafBase(p, (x - 1) \div LHALF) + ((x - 1) % LHALF)]

\* the keys that follow the keys of leaf p, but for g
GapKeys(p, g) ==
    LET S == (LeafBase(p, p) + LHALF .. LeafBase(p, p) + 2 * LHALF - 1) \ {g}
    IN  [x \in 1 .. LHALF - 1 |-> CHOOSE k \in S : Cardinality({j \in S : j < k}) = x - 1]

\* a tree whose root index is full and whose leaf p is full; g, a key of the
\* range of leaf p, is not in the tree
FullAt(p, g) == BuildSeq([heap |-> [q \in Blocks |-> ZeroPage], mapped |-> {1}, b |-> NewTree,
                          cur |-> [c \in CursorIds |-> NoCursor], fault |-> "none"],
                         BaseKeys(p) \o GapKeys(p, g))

\* the keys of a caller that fills the root index and one leaf
SplitKeys == 0 .. LHALF * (ORDER + 1) - 1

\* a caller has filled the root index and one leaf
InitSplit ==
    \E p \in 0 .. ORDER - 1 :
    \E g \in LeafBase(p, p) + LHALF .. LeafBase(p, p) + 2 * LHALF - 1 :
    \E t \in {FullAt(p, g)} :
        /\ heap = t.heap
        /\ mapped = t.mapped
        /\ b = t.b
        /\ cur = t.cur
        /\ fault = t.fault
        /\ contents = [k \in DeepKeys |->
                          IF \E x \in 1 .. Len(BaseKeys(p) \o GapKeys(p, g)) :
                                (BaseKeys(p) \o GapKeys(p, g))[x] = k
                          THEN FirstVal ELSE 0]
        /\ tomb = [c \in CursorIds |-> -1]
        /\ ndel = 0
        /\ nalt = 0

\* the caller goes on inserting: an insert into the full leaf splits the
\* root index at the position of that leaf
NextSplit == \E k \in SplitKeys : Insert(k, FirstVal)

SpecSplit == InitSplit /\ [][NextSplit]_vars

\* the keys of a caller that keeps several cursors: enough to split a leaf
RegKeys == 0 .. ORDER - 1

\* new_bplus_tree has run, for a caller that keeps several cursors
InitRegistry ==
    /\ heap = [p \in Blocks |-> ZeroPage]
    /\ mapped = {1}
    /\ b = NewTree
    /\ cur = [c \in RegCursorIds |-> NoCursor]
    /\ fault = "none"
    /\ contents = [k \in DeepKeys |-> 0]
    /\ tomb = [c \in RegCursorIds |-> -1]
    /\ ndel = 0
    /\ nalt = 0

\* a caller that makes and frees cursors while it uses the tree
NextRegistry ==
    \/ \E k \in GrowKeys \cap RegKeys : Insert(k, FirstVal)
    \/ \E k \in RegKeys : Delete(k)
    \/ \E k \in RegKeys : Find(k)
    \/ Enumerate
    \/ FirstRecord
    \/ \E k \in RegKeys : FindRecord(k)
    \/ \E c \in RegCursorIds : FreeCursor(c)

SpecRegistry == InitRegistry /\ [][NextRegistry]_vars

\* ------------------------------------------------------------ properties
\* the keys in the tree: inserted and not deleted since
Present == {k \in Keys : contents[k] # 0}

\* C1: find(k) returns OK with the value of the most recent insert(k, .) for
\* every key k that is in the tree
C1_find_present ==
    fault = "none" =>
        \A k \in Present : \A mallocOk \in PathMalloc :
            LET r == find(Machine, k, mallocOk)
            IN  r.m.fault = "none" /\ r.ret = OK /\ r.v = contents[k]

\* C2: find(k) returns NOTFOUND for every key k that is not in the tree
C2_find_absent ==
    fault = "none" =>
        \A k \in Keys \ Present : \A mallocOk \in PathMalloc :
            LET r == find(Machine, k, mallocOk)
            IN  r.m.fault = "none" /\ r.ret = NOTFOUND

\* C3: enumerate calls the visitor once for each record in the tree, with
\* its current value, in strictly ascending key order, and for no other key
C3_enumerate ==
    fault = "none" =>
        LET e == enumerate(Machine)
            n == Len(e.seq)
        IN  /\ e.fault = "none"
            /\ \A x \in 1 .. n : e.seq[x][1] \in Present /\ e.seq[x][2] = contents[e.seq[x][1]]
            /\ \A x, y \in 1 .. n : x < y => e.seq[x][1] < e.seq[y][1]
            /\ \A k \in Present : \E x \in 1 .. n : e.seq[x][1] = k

\* a tree of two leaves that has seen a split, a delete and an overwritten
\* value, enumerated
C3_witness ==
    /\ fault = "none"
    /\ b.depth = 1
    /\ ndel > 0
    /\ nalt > 0
    /\ Len(enumerate(Machine).seq) >= ORDER - 1

\* what find reports for each key when memory is granted
Seen(m) == [k \in Keys |-> LET r == find(m, k, TRUE) IN <<r.m.fault, r.ret, r.v>>]

\* C4: when insert returns NOMEM the tree is observably unchanged: the
\* records seen by find and enumerate, the depth, the record, block and
\* cursor counts and the state of every cursor are as before the call
C4_nomem_unchanged ==
    fault = "none" =>
        \A k \in Keys, v \in Vals : \A mallocOk \in PathMalloc :
        \A refuseAt \in Refusals(k, mallocOk) : \A u \in UninitReads(refuseAt) :
            LET r == insert(Machine, k, v, mallocOk, refuseAt, u)
            IN  r.m.fault = "none" /\ r.ret = NOMEM =>
                    /\ Seen(r.m) = Seen(Machine)
                    /\ enumerate(r.m) = enumerate(Machine)
                    /\ r.m.b.depth = b.depth
                    /\ r.m.b.num_recs = b.num_recs
                    /\ r.m.b.num_blks = b.num_blks
                    /\ r.m.b.num_crsrs = b.num_crsrs
                    /\ r.m.cur = cur

\* the cursors whose get_record returns a record
Valid(m) ==
    {c \in Allocated(m) : get_record(m, c).fault = "none" /\ get_record(m, c).ret = OK}

\* C5: a successful insert of a key other than the key of the record a
\* cursor is at leaves the cursor's get_record returning that record
C5_insert_keeps_cursor ==
    fault = "none" =>
        \A c \in Valid(Machine) :
        \A k \in Keys \ {get_record(Machine, c).k}, v \in Vals : \A mallocOk \in PathMalloc :
        \A refuseAt \in Refusals(k, mallocOk) : \A u \in UninitReads(refuseAt) :
            LET r == insert(Machine, k, v, mallocOk, refuseAt, u)
            IN  r.m.fault = "none" /\ r.ret = OK =>
                    get_record(r.m, c) = get_record(Machine, c)

\* C6: a delete of a key other than the key of the record a cursor is at
\* leaves the cursor's get_record returning that record, also when leaves
\* rotate or merge
C6_delete_keeps_cursor ==
    fault = "none" =>
        \A c \in Valid(Machine) :
        \A k \in Keys \ {get_record(Machine, c).k} : \A mallocOk \in PathMalloc :
            LET r == delete(Machine, k, mallocOk)
            IN  r.m.fault = "none" /\ r.ret = OK =>
                    get_record(r.m, c) = get_record(Machine, c)

\* a delete of another key merges the leaf the cursor is on into its left
\* peer and frees it
C6_witness ==
    /\ fault = "none"
    /\ \E c \in Valid(Machine) : \E k \in Keys \ {get_record(Machine, c).k} :
          LET r == delete(Machine, k, TRUE)
          IN  /\ r.m.fault = "none"
              /\ r.ret = OK
              /\ cur[c].leaf \notin r.m.mapped
              /\ get_record(r.m, c).ret = OK

\* the keys in the tree after k
After(k) == {k2 \in Present : k2 > k}

\* C7: the record a cursor is at is deleted and next_record is called next:
\* next_record returns OK and get_record the record of the key that
\* followed, or next_record returns NOTFOUND if the key was the largest
C7_delete_then_next ==
    fault = "none" =>
        \A c \in Valid(Machine) : \A mallocOk \in PathMalloc :
            LET g == get_record(Machine, c)
                d == delete(Machine, g.k, mallocOk)
                n == next_record(d.m, c)
                h == get_record(n.m, c)
            IN  d.m.fault = "none" /\ d.ret = OK =>
                    /\ n.m.fault = "none"
                    /\ IF After(g.k) = {}
                       THEN n.ret = NOTFOUND
                       ELSE /\ n.ret = OK
                            /\ h = [ret |-> OK, k |-> Min(After(g.k)),
                                    v |-> contents[Min(After(g.k))], fault |-> "none"]

\* the delete of the cursor's record empties or underfills its leaf, which is
\* merged away or refilled by a rotation, and a record follows
C7_witness ==
    /\ fault = "none"
    /\ \E c \in Valid(Machine) :
          LET g == get_record(Machine, c)
              d == delete(Machine, g.k, TRUE)
          IN  /\ d.m.fault = "none"
              /\ d.ret = OK
              /\ b.depth = 1
              /\ num_keys(Machine, cur[c].leaf) = LHALF
              /\ After(g.k) # {}
              /\ next_record(d.m, c).ret = OK

\* C8: after the record a cursor is at has been deleted, and until
\* next_record is called on the cursor or the key is inserted again,
\* get_record and update_record return NOTFOUND and update_record changes
\* no record
C8_deleted_under_cursor ==
    fault = "none" =>
        \A c \in CursorIds : tomb[c] # -1 =>
            /\ get_record(Machine, c).fault = "none"
            /\ get_record(Machine, c).ret = NOTFOUND
            /\ \A v \in Vals :
                  LET r == update_record(Machine, c, v)
                  IN  r.ret = NOTFOUND /\ r.m = Machine

\* a cursor whose record was deleted, with other inserts and deletes since
C8_witness ==
    /\ fault = "none"
    /\ \E c \in CursorIds :
          /\ tomb[c] # -1
          /\ ndel = MaxDeletes
          /\ \E k \in Present : k > tomb[c] /\ cur[c].leaf # NULL
          /\ num_keys(Machine, cur[c].leaf) > cur[c].pos

\* C9: the record a cursor is at is deleted and its key inserted again with
\* value v: the cursor's get_record returns OK with (k, v) and the cursor is
\* no longer marked invalid
C9_reinsert_under_cursor ==
    fault = "none" =>
        \A c \in Valid(Machine) : \A v \in Vals :
            LET g == get_record(Machine, c)
                d == delete(Machine, g.k, TRUE)
                r == insert(d.m, g.k, v, TRUE, 0, NULL)
            IN  d.m.fault = "none" /\ d.ret = OK /\ r.m.fault = "none" /\ r.ret = OK =>
                    /\ get_record(r.m, c) = [ret |-> OK, k |-> g.k, v |-> v, fault |-> "none"]
                    /\ r.m.cur[c].invalid = 0

\* the keys in the tree from k on
From(k) == {k2 \in Present : k2 >= k}

\* C10: the cursor find_record(k) returns is at the record with the smallest
\* key >= k: get_record on it returns that record whenever there is one
C10_find_record_lowest ==
    fault = "none" /\ CursorIds \ Allocated(Machine) # {} =>
        \A k \in Keys : \A pathOk \in PathMalloc :
            LET r == find_record(Machine, k, pathOk, TRUE)
            IN  r.m.fault = "none" /\ r.c # NULL /\ From(k) # {} =>
                    get_record(r.m, r.c) = [ret |-> OK, k |-> Min(From(k)),
                                            v |-> contents[Min(From(k))], fault |-> "none"]

\* the records in the tree, in ascending key order
RECURSIVE Records(_)
Records(S) ==
    IF S = {}
    THEN <<>>
    ELSE <<<<Min(S), contents[Min(S)]>>>> \o Records(S \ {Min(S)})

\* the caller's loop get_record, next_record on cursor c until next_record
\* returns NOTFOUND: the records got, the next_record calls that returned
\* OK, and how the loop ended
RECURSIVE Walk(_, _, _, _, _)
Walk(m, c, acc, oks, fuel) ==
    LET g == get_record(m, c)
        acc1 == IF g.ret = OK THEN Append(acc, <<g.k, g.v>>) ELSE acc
        n == next_record(m, c)
    IN  IF g.fault # "none" \/ n.m.fault # "none"
        THEN [seq |-> acc1, oks |-> oks, end |-> "fault"]
        ELSE IF fuel = 0
        THEN [seq |-> acc1, oks |-> oks, end |-> "fuel"]
        ELSE IF n.ret = OK
        THEN Walk(n.m, c, acc1, oks + 1, fuel - 1)
        ELSE [seq |-> acc1, oks |-> oks, end |-> IF g.ret = OK THEN "last" ELSE "empty"]

\* C11: a cursor from first_record followed by get_record, next_record with
\* no mutation in between yields every record of the tree once in ascending
\* key order, as enumerate does; next_record returns NOTFOUND exactly on the
\* last record, or at once on an empty tree
C11_cursor_walk ==
    fault = "none" /\ CursorIds \ Allocated(Machine) # {} =>
        LET f == first_record(Machine, TRUE)
            w == Walk(f.m, f.c, <<>>, 0, MaxKey + 2)
        IN  /\ w.seq = Records(Present)
            /\ w.seq = enumerate(Machine).seq
            /\ w.end = (IF Present = {} THEN "empty" ELSE "last")
            /\ w.oks = (IF Present = {} THEN 0 ELSE Cardinality(Present) - 1)

\* a walk over two leaves after a delete
C11_witness ==
    /\ fault = "none"
    /\ CursorIds \ Allocated(Machine) # {}
    /\ b.depth = 1
    /\ ndel > 0
    /\ LET f == first_record(Machine, TRUE)
       IN  Len(Walk(f.m, f.c, <<>>, 0, MaxKey + 2).seq) >= ORDER - 1

\* C12: after free_bplus_tree, for every cursor of the tree not yet freed,
\* get_tree returns NULL, get_record, update_record and next_record return
\* NOTFOUND without reading a freed node, and free_cursor completes without
\* dereferencing the null tree reference
C12_cursor_after_teardown ==
    fault = "none" =>
        LET t == free_bplus_tree(Machine)
        IN  t.fault = "none" =>
            \A c \in Allocated(Machine) :
                /\ get_tree(t, c) = NULL
                /\ get_record(t, c).fault = "none" /\ get_record(t, c).ret = NOTFOUND
                /\ \A v \in Vals : LET r == update_record(t, c, v)
                                   IN  r.m.fault = "none" /\ r.ret = NOTFOUND
                /\ LET n == next_record(t, c) IN n.m.fault = "none" /\ n.ret = NOTFOUND
                /\ free_cursor(t, c).fault = "none"

\* C13: delete of a key not in the tree returns NOTFOUND and changes no
\* record, counter, node or cursor; delete of a key in the tree returns OK,
\* removes the record of that key and leaves every other record as it was
C13_delete_exact ==
    fault = "none" =>
        \A k \in Keys : \A mallocOk \in PathMalloc :
            LET r == delete(Machine, k, mallocOk)
            IN  /\ r.m.fault = "none"
                /\ IF k \in Present
                   THEN /\ r.ret = OK
                        /\ enumerate(r.m) = [seq |-> Records(Present \ {k}), fault |-> "none"]
                   ELSE /\ r.ret = NOTFOUND
                        /\ r.m.heap = heap
                        /\ r.m.mapped = mapped
                        /\ r.m.cur = cur
                        /\ r.m.b.num_recs = b.num_recs
                        /\ r.m.b.num_blks = b.num_blks
                        /\ r.m.b.num_crsrs = b.num_crsrs
                        /\ r.m.b.depth = b.depth /\ r.m.b.root = b.root

\* C14: find and delete never return NOMEM, also when they are the first
\* operation after an insert that raised the depth
C14_no_nomem_find_delete ==
    fault = "none" =>
        \A k \in Keys : \A mallocOk \in PathMalloc :
            /\ find(Machine, k, mallocOk).ret # NOMEM
            /\ delete(Machine, k, mallocOk).ret # NOMEM

\* C15: the record count get_active_storage reports is the number of keys
\* in the tree, the sum of the key counts of the leaves: an insert of an
\* absent key raises it by one, an insert of a present key leaves it, a
\* delete lowers it by one and every other operation leaves it unchanged
C15_record_count ==
    fault = "none" =>
        LET n == get_active_storage(Machine).num_records
        IN  /\ n = Cardinality(Present)
            /\ n = Len(enumerate(Machine).seq)
            /\ \A k \in Keys : \A mallocOk \in PathMalloc :
                  /\ get_active_storage(find(Machine, k, mallocOk).m).num_records = n
                  /\ LET d == delete(Machine, k, mallocOk)
                     IN  d.m.fault = "none" =>
                            get_active_storage(d.m).num_records =
                                (IF d.ret = OK THEN n - 1 ELSE n)
                  /\ \A v \in Vals :
                        LET r == insert(Machine, k, v, mallocOk, 0, NULL)
                        IN  r.m.fault = "none" =>
                               get_active_storage(r.m).num_records =
                                   (IF r.ret = OK /\ k \notin Present THEN n + 1 ELSE n)
            /\ \A c \in Allocated(Machine) :
                  /\ get_active_storage(next_record(Machine, c).m).num_records = n
                  /\ get_active_storage(free_cursor(Machine, c)).num_records = n
                  /\ \A v \in Vals :
                        get_active_storage(update_record(Machine, c, v).m).num_records = n

\* two leaves, a cursor, deletes behind and a key of the tree inserted again
C15_witness ==
    /\ fault = "none"
    /\ b.depth = 1
    /\ ndel = MaxDeletes
    /\ Allocated(Machine) # {}
    /\ get_active_storage(Machine).num_records = ORDER
    /\ \E k \in Present :
          LET r == insert(Machine, k, FirstVal, TRUE, 0, NULL)
          IN  r.ret = OK /\ get_active_storage(r.m).num_records = ORDER

\* the nodes reachable from blk, a node at level d: index nodes and leaves
RECURSIVE Subtree(_, _, _)
Subtree(m, d, blk) ==
    IF d >= m.b.depth \/ blk \notin m.mapped
    THEN {blk}
    ELSE {blk} \cup UNION {Subtree(m, d + 1, get_child(m, blk, i)) : i \in 0 .. num_keys(m, blk)}

\* C19: after every completed insert or delete the block count
\* get_active_storage reports is the number of nodes reachable from the
\* root, also after an insert that splits a full root index
C19_block_count ==
    fault = "none" =>
        get_active_storage(Machine).num_blocks = Cardinality(Subtree(Machine, 0, b.root))

\* the caller's loop get_record, delete of the key got, next_record on cursor
\* c: the deletes that returned OK and how the loop ended.  mallocOk is
\* whether malloc serves the first delete; n is the deletes made so far.
RECURSIVE Drain(_, _, _, _, _)
Drain(m, c, mallocOk, n, fuel) ==
    LET g == get_record(m, c)
        d == delete(m, g.k, mallocOk)
        x == next_record(d.m, c)
    IN  IF g.fault # "none"
        THEN [m |-> m, n |-> n, end |-> "fault"]
        ELSE IF g.ret # OK
        THEN [m |-> m, n |-> n, end |-> "get_record"]
        ELSE IF d.m.fault # "none"
        THEN [m |-> d.m, n |-> n, end |-> "fault"]
        ELSE IF d.ret # OK
        THEN [m |-> d.m, n |-> n, end |-> "delete"]
        ELSE IF x.m.fault # "none"
        THEN [m |-> x.m, n |-> n + 1, end |-> "fault"]
        ELSE IF x.ret # OK
        THEN [m |-> x.m, n |-> n + 1, end |-> "next_record"]
        ELSE IF fuel = 0
        THEN [m |-> x.m, n |-> n + 1, end |-> "fuel"]
        ELSE Drain(x.m, c, TRUE, n + 1, fuel - 1)

\* C16: from a cursor of first_record on a tree of n records the loop
\* get_record, delete of the key returned, next_record deletes every record:
\* each delete returns OK, the loop ends after n deletes when get_record or
\* next_record returns NOTFOUND, and the record count is then 0
C16_drain_by_cursor ==
    fault = "none" /\ CursorIds \ Allocated(Machine) # {} =>
        \A mallocOk \in PathMalloc :
            LET f == first_record(Machine, TRUE)
                r == Drain(f.m, f.c, mallocOk, 0, MaxDeepKey + 2)
            IN  /\ r.end \in {"get_record", "next_record"}
                /\ r.n = Cardinality(PresentDeep)
                /\ get_active_storage(r.m).num_records = 0

\* C17: once every key inserted into a new tree has been deleted again the
\* tree has record count 0, depth 0 and block count 1, however deep it grew
C17_empty_again ==
    fault = "none" /\ PresentDeep = {} =>
        /\ get_active_storage(Machine).num_records = 0
        /\ b.depth = 0
        /\ get_active_storage(Machine).num_blocks = 1

\* a new tree into which the records of the keys of S are inserted in
\* ascending key order, memory granted
RECURSIVE Build(_, _)
Build(m, S) ==
    IF S = {}
    THEN m
    ELSE Build(insert(m, Min(S), contents[Min(S)], TRUE, 0, NULL).m, S \ {Min(S)})

Fresh ==
    [heap |-> [p \in Blocks |-> ZeroPage], mapped |-> {1}, b |-> NewTree,
     cur |-> [c \in CursorIds |-> NoCursor], fault |-> "none"]

\* no delete has been made and no path array has been refused
OnlyInserted == ndel = 0 /\ (b.path.null => b.path_length = 0)

PassAllocs(k, mallocOk) ==
    Cardinality(insert(Machine, k, FirstVal, mallocOk, 0, NULL).m.mapped \ mapped)

\* C20: when an allocation of the preallocation pass of insert is refused,
\* the abort frees the blocks allocated earlier in the pass and no other
\* block: insert returns NOMEM and the blocks in use are those of before
C20_abort_frees_pass ==
    fault = "none" =>
        \A k \in DeepKeys : \A mallocOk \in PathMalloc :
        \A refuseAt \in Refusals(k, mallocOk) \ {0} : \A u \in UninitReads(refuseAt) :
            LET r == insert(Machine, k, FirstVal, mallocOk, refuseAt, u)
            IN  refuseAt <= PassAllocs(k, mallocOk) =>
                    /\ r.m.fault = "none"
                    /\ r.ret = NOMEM
                    /\ r.m.mapped = mapped

\* the keys stored in the leaves of the subtree of blk, a node at level d
RECURSIVE SubKeys(_, _, _)
SubKeys(m, d, blk) ==
    IF blk \notin m.mapped
    THEN {}
    ELSE IF d >= m.b.depth
    THEN {get_key(m, blk, i) : i \in 0 .. num_keys(m, blk) - 1}
    ELSE UNION {SubKeys(m, d + 1, get_child(m, blk, i)) : i \in 0 .. num_keys(m, blk)}

\* the nodes reachable from blk, a node at level d, each with its level
RECURSIVE NodesAt(_, _, _)
NodesAt(m, d, blk) ==
    IF d >= m.b.depth \/ blk \notin m.mapped
    THEN {<<blk, d>>}
    ELSE {<<blk, d>>} \cup
         UNION {NodesAt(m, d + 1, get_child(m, blk, i)) : i \in 0 .. num_keys(m, blk)}

\* the index nodes and the leaves reachable from the root
IndexNodes(m) == {n[1] : n \in {x \in NodesAt(m, 0, m.b.root) : x[2] < m.b.depth}}

LeafNodes(m) == {n[1] : n \in {x \in NodesAt(m, 0, m.b.root) : x[2] >= m.b.depth}}

\* the keys of node p are strictly ascending
Ascending(m, p) ==
    \A i, j \in 0 .. num_keys(m, p) - 1 : i < j => get_key(m, p, i) < get_key(m, p, j)

\* the level of node p
LevelOf(m, p) == CHOOSE d \in 0 .. m.b.depth : <<p, d>> \in NodesAt(m, 0, m.b.root)

\* the child slots of the index nodes: a node and the number of a child
ChildSlots(m) == {<<p, i>> \in IndexNodes(m) \X (0 .. ORDER - 1) : i <= num_keys(m, p)}

\* C21: after every completed insert or delete the keys of each internal
\* node are strictly ascending, a node with n keys has n + 1 children, every
\* key in the subtree of child i is less than key i and every key in the
\* subtree of child i + 1 is greater than or equal to key i; the keys of each
\* leaf are strictly ascending and no key occurs twice in the tree
C21_search_order ==
    fault = "none" =>
        LET m == Machine
        IN  /\ \A n \in NodesAt(m, 0, b.root) : n[1] \in mapped
            /\ \A p \in IndexNodes(m) :
                  /\ Ascending(m, p)
                  /\ \A i \in 0 .. num_keys(m, p) - 1 :
                        /\ \A k \in SubKeys(m, LevelOf(m, p) + 1, get_child(m, p, i)) :
                              k < get_key(m, p, i)
                        /\ \A k \in SubKeys(m, LevelOf(m, p) + 1, get_child(m, p, i + 1)) :
                              k >= get_key(m, p, i)
            /\ \A s, t \in ChildSlots(m) :
                  s # t => get_child(m, s[1], s[2]) # get_child(m, t[1], t[2])
            /\ \A s \in ChildSlots(m) : get_child(m, s[1], s[2]) # b.root
            /\ \A p \in LeafNodes(m) : Ascending(m, p)
            /\ \A p, q \in LeafNodes(m) :
                  p # q => SubKeys(m, b.depth, p) \cap SubKeys(m, b.depth, q) = {}

\* a tree of depth 2 after a delete, from which the delete of the key at one
\* end merges two leaves and rotates a key through the root index
C21_witness ==
    /\ fault = "none"
    /\ b.depth = 2
    /\ ndel > 0
    /\ \E k \in DropKeys :
          LET r == delete(Machine, k, TRUE)
          IN  /\ r.m.fault = "none"
              /\ r.m.b.depth = 2
              /\ Cardinality(LeafNodes(r.m)) < Cardinality(LeafNodes(Machine))
              /\ get_key(r.m, b.root, 0) # get_key(Machine, b.root, 0)

\* C22: after every completed insert or delete every node holds at most
\* ORDER - 1 keys, so that no merge of leaves or index nodes overfills a node
\* and the count fits the header, and every node but the root holds at least
\* ORDER / 2 - 1 keys
C22_fill ==
    fault = "none" =>
        \A n \in NodesAt(Machine, 0, b.root) :
            /\ n[1] \in mapped
            /\ num_keys(Machine, n[1]) <= ORDER - 1
            /\ num_keys(Machine, n[1]) < 256
            /\ n[1] # b.root => num_keys(Machine, n[1]) >= ORDER \div 2 - 1

\* a tree of depth 2 after a delete, with an index node at the least number
\* of keys and a leaf that a merge has filled
C22_witness ==
    /\ fault = "none"
    /\ b.depth = 2
    /\ ndel > 0
    /\ \E p \in IndexNodes(Machine) \ {b.root} : num_keys(Machine, p) = ORDER \div 2 - 1
    /\ \E p \in LeafNodes(Machine) : num_keys(Machine, p) = ORDER - 1

\* the leaves of the chain that starts at blk, in order; a chain that does
\* not end within the blocks there are is cut
RECURSIVE Chain(_, _, _)
Chain(m, blk, fuel) ==
    IF blk = NULL \/ blk \notin m.mapped \/ fuel = 0
    THEN <<>>
    ELSE <<blk>> \o Chain(m, next_leaf(m, blk), fuel - 1)

ChainSet(m) == {Chain(m, m.b.leaves, MaxBlocks)[x] : x \in 1 .. Len(Chain(m, m.b.leaves, MaxBlocks))}

\* the machine after the step
MachineNext == [heap |-> heap', mapped |-> mapped', b |-> b', cur |-> cur', fault |-> fault']

\* every node depth levels below the root is a leaf of the chain and no
\* node above is one; an index root has a key
Levelled(m) ==
    /\ \A n \in NodesAt(m, 0, m.b.root) :
          /\ n[1] \in m.mapped
          /\ n[2] = m.b.depth <=> n[1] \in ChainSet(m)
    /\ m.b.depth > 0 => num_keys(m, m.b.root) >= 1

\* the depth moves by one at most: up when a new root is put over the old
\* one by an insert, down when a delete leaves the root to its only child
DepthStep ==
    fault' = "none" =>
        /\ b'.depth - b.depth \in {-1, 0, 1}
        /\ b'.depth = b.depth + 1 =>
              /\ b'.num_recs = b.num_recs + 1
              /\ b'.root \notin mapped
              /\ num_keys(MachineNext, b'.root) = 1
              /\ get_child(MachineNext, b'.root, 0) = b.root
        /\ b'.depth = b.depth - 1 =>
              /\ b'.num_recs = b.num_recs - 1
              /\ b.root \notin mapped'
              /\ num_keys(Machine, b.root) = 1
              /\ b'.root = get_child(Machine, b.root, 0)
        /\ b'.depth = b.depth => b'.root = b.root

\* C23: after every completed insert or delete every path from the root to
\* a leaf passes through depth internal nodes, an internal root has at least
\* one key, and an insert or delete changes the depth by one at most: up
\* only when the root splits, down only when the root collapses
C23_depth == [](fault = "none" => Levelled(Machine)) /\ [][DepthStep]_vars

\* a tree of depth 2 whose root the delete of a key at one end collapses
C23_witness ==
    /\ fault = "none"
    /\ b.depth = 2
    /\ \E k \in DropKeys :
          LET r == delete(Machine, k, TRUE)
          IN  r.m.fault = "none" /\ r.m.b.depth = 1 /\ Levelled(r.m)

\* the leaves reachable from blk, a node at level d, from left to right; i
\* is the child the walk is at
RECURSIVE LeafSeq(_, _, _, _)
LeafSeq(m, d, blk, i) ==
    IF blk \notin m.mapped
    THEN <<>>
    ELSE IF d >= m.b.depth
    THEN <<blk>>
    ELSE IF i > num_keys(m, blk)
    THEN <<>>
    ELSE LeafSeq(m, d + 1, get_child(m, blk, i), 0) \o LeafSeq(m, d, blk, i + 1)

\* C24: after every completed insert or delete the leaf chain from the head
\* of the tree ends in NULL, has no cycle and visits the leaves reachable
\* from the root, each once, from left to right; the head is the leaf set at
\* creation and the leftmost leaf, the root itself at depth 0
C24_leaf_chain ==
    fault = "none" =>
        LET ch == Chain(Machine, b.leaves, MaxBlocks)
        IN  /\ b.leaves = NewTree.leaves
            /\ Len(ch) >= 1
            /\ next_leaf(Machine, ch[Len(ch)]) = NULL
            /\ \A x, y \in 1 .. Len(ch) : x < y => ch[x] # ch[y]
            /\ ch = LeafSeq(Machine, 0, b.root, 0)
            /\ b.depth = 0 => b.leaves = b.root

\* a tree of depth 2 whose first and last leaf are both full: the tree grew
\* at one end only, so the leaf at the other end was filled by a merge
C24_witness ==
    /\ fault = "none"
    /\ b.depth = 2
    /\ ndel > 0
    /\ LET ch == Chain(Machine, b.leaves, MaxBlocks)
       IN  /\ Len(ch) > 1
           /\ num_keys(Machine, ch[1]) = ORDER - 1
           /\ num_keys(Machine, ch[Len(ch)]) = ORDER - 1

\* C25: whenever find, insert, delete or find_record goes on to descend
\* from the root, the path array is there with room for depth frames, also
\* in the operation that follows one that returned NOMEM for the path array
C25_path_capacity ==
    fault = "none" =>
        \A mallocOk \in PathMalloc :
            LET r == path_reserved(Machine, mallocOk)
            IN  r.ok = OK /\ b.depth > 0 =>
                    /\ ~r.m.b.path.null
                    /\ Len(r.m.b.path.split) >= b.depth
                    /\ \A k \in Keys : find_leaf(r.m, k).fault = "none"

\* the least key stored under child i of index node p, -1 if there is none
MinUnder(m, p, i) ==
    LET S == SubKeys(m, LevelOf(m, p) + 1, get_child(m, p, i))
    IN  IF S = {} THEN -1 ELSE Min(S)

\* C26: after every completed insert or delete each splitter key at index i
\* of an internal node equals the least key stored in the subtree of child
\* i + 1
C26_splitter_is_min ==
    fault = "none" =>
        \A p \in IndexNodes(Machine) : \A i \in 0 .. num_keys(Machine, p) - 1 :
            get_key(Machine, p, i) = MinUnder(Machine, p, i + 1)

\* C26 as amended: each splitter key at index i is less than or equal to the
\* least key stored in the subtree of child i + 1, and equal to it as long
\* as no record has been deleted
C26_splitter_at_most_min ==
    fault = "none" =>
        \A p \in IndexNodes(Machine) : \A i \in 0 .. num_keys(Machine, p) - 1 :
            /\ MinUnder(Machine, p, i + 1) # -1
            /\ get_key(Machine, p, i) <= MinUnder(Machine, p, i + 1)
            /\ ndel = 0 => get_key(Machine, p, i) = MinUnder(Machine, p, i + 1)

\* two leaves after a delete of the first key of the right leaf: the
\* splitter is below every key of that leaf
C26_witness ==
    /\ fault = "none"
    /\ b.depth = 1
    /\ ndel > 0
    /\ get_key(Machine, b.root, 0) < MinUnder(Machine, b.root, 1)

\* seq with x put in before its element number i + 1
InsertAt(seq, i, x) == SubSeq(seq, 1, i) \o <<x>> \o SubSeq(seq, i + 1, Len(seq))

\* the first n keys and the first n children of node p
KeySeq(m, p, n) == [x \in 1 .. n |-> get_key(m, p, x - 1)]

ChildSeq(m, p, n) == [x \in 1 .. n |-> get_child(m, p, x - 1)]

\* the full index nodes of the tree
FullIndexNodes(m) == {p \in IndexNodes(m) : num_keys(m, p) = ORDER - 1}

\* split_index of the full node parent into a fresh block, with key k at pos
\* and child new at pos + 1, does what C27 says
SplitsRight(m, parent, pos, k, new) ==
    LET a == alloc_page_for_block(m, FALSE)
        r == split_index(a.m, parent, a.p, pos, k, new)
        keys == InsertAt(KeySeq(m, parent, ORDER - 1), pos, k)
        children == InsertAt(ChildSeq(m, parent, ORDER), pos + 1, new)
    IN  /\ r.m.fault = "none"
        /\ num_keys(r.m, parent) = LHALF
        /\ num_keys(r.m, a.p) = RHALF - 1
        /\ r.k = keys[LHALF + 1]
        /\ KeySeq(r.m, parent, LHALF) \o <<r.k>> \o KeySeq(r.m, a.p, RHALF - 1) = keys
        /\ ChildSeq(r.m, parent, LHALF + 1) \o ChildSeq(r.m, a.p, RHALF) = children

\* C27: split_index of a full internal node with a new key at pos and a new
\* child at pos + 1, for every pos in 0 .. ORDER - 1: the left node ends with
\* LHALF keys and LHALF + 1 children, the new right node with RHALF - 1 keys
\* and RHALF children, the promoted key is the key numbered LHALF of the
\* combined sequence, and left keys, promoted key, right keys, and left
\* children, right children, are the combined sequences with nothing lost
\* or doubled
C27_split_index ==
    fault = "none" /\ Blocks \ mapped # {} =>
        \A parent \in FullIndexNodes(Machine) :
        \A pos \in 0 .. ORDER - 1 : \A k \in SplitKeys : \A new \in {NULL, MAP_FAILED} \cup Blocks :
            SplitsRight(Machine, parent, pos, k, new)

\* the insert into the full first leaf has split the root index at position
\* 0: the leaf after the head is younger than the root
C27_witness ==
    /\ fault = "none"
    /\ b.depth = 2
    /\ next_leaf(Machine, b.leaves) > b.root
    /\ num_keys(Machine, get_child(Machine, b.root, 0)) = LHALF
    /\ num_keys(Machine, get_child(Machine, b.root, 1)) = RHALF - 1

\* the records of leaf p, in order
RecSeq(m, p) == [x \in 1 .. num_keys(m, p) |-> <<get_key(m, p, x - 1), get_value(m, p, x - 1)>>]

\* seq without its elements equal to x
RECURSIVE Without(_, _)
Without(seq, x) ==
    IF seq = <<>>
    THEN <<>>
    ELSE IF Head(seq) = x
    THEN Without(Tail(seq), x)
    ELSE <<Head(seq)>> \o Without(Tail(seq), x)

\* the records of leaf p without the record of key k
RecsLess(m, p, k) ==
    LET rs == RecSeq(m, p)
    IN  IF \E x \in 1 .. Len(rs) : rs[x][1] = k
        THEN Without(rs, (CHOOSE y \in {rs[x] : x \in 1 .. Len(rs)} : y[1] = k))
        ELSE rs

\* the parent lost the key and the child of the freed leaf, where the parent
\* itself was left with enough keys to stay as it is
ParentShrunk(m, n, parent, nkp, freed) ==
    (IF parent = m.b.root THEN nkp - 1 >= 1 ELSE nkp - 1 >= LHALF) =>
        /\ parent \in n.mapped
        /\ num_keys(n, parent) = nkp - 1
        /\ ChildSeq(n, parent, nkp) = Without(ChildSeq(m, parent, nkp + 1), freed)

\* the delete of key k from leaf, child pos of parent, which underflows,
\* resolved as C28 says; n is the machine after the delete
Resolved(m, n, k, leaf, parent, pos, nkp) ==
    LET rs == IF pos < nkp THEN get_child(m, parent, pos + 1) ELSE NULL
        ls == IF pos > 0 THEN get_child(m, parent, pos - 1) ELSE NULL
        others == LeafNodes(m) \ {leaf, rs, ls}
    IN  /\ \A p \in others : p \in n.mapped /\ RecSeq(n, p) = RecSeq(m, p)
        /\ IF rs # NULL /\ num_keys(m, rs) > LHALF
           THEN /\ n.mapped = m.mapped
                /\ RecSeq(n, leaf) = RecsLess(m, leaf, k) \o <<Head(RecSeq(m, rs))>>
                /\ RecSeq(n, rs) = Tail(RecSeq(m, rs))
                /\ ls # NULL => RecSeq(n, ls) = RecSeq(m, ls)
           ELSE IF ls # NULL /\ num_keys(m, ls) > LHALF
           THEN /\ n.mapped = m.mapped
                /\ RecSeq(n, leaf) = <<RecSeq(m, ls)[num_keys(m, ls)]>> \o RecsLess(m, leaf, k)
                /\ RecSeq(n, ls) = SubSeq(RecSeq(m, ls), 1, num_keys(m, ls) - 1)
                /\ rs # NULL => RecSeq(n, rs) = RecSeq(m, rs)
           ELSE IF ls # NULL
           THEN /\ (m.mapped \ n.mapped) \cap LeafNodes(m) = {leaf}
                /\ n.mapped \subseteq m.mapped
                /\ RecSeq(n, ls) = RecSeq(m, ls) \o RecsLess(m, leaf, k)
                /\ rs # NULL => RecSeq(n, rs) = RecSeq(m, rs)
                /\ LeafSeq(n, 0, n.b.root, 0) = Without(LeafSeq(m, 0, m.b.root, 0), leaf)
                /\ ParentShrunk(m, n, parent, nkp, leaf)
           ELSE /\ rs # NULL
                /\ (m.mapped \ n.mapped) \cap LeafNodes(m) = {rs}
                /\ n.mapped \subseteq m.mapped
                /\ RecSeq(n, leaf) = RecsLess(m, leaf, k) \o RecSeq(m, rs)
                /\ LeafSeq(n, 0, n.b.root, 0) = Without(LeafSeq(m, 0, m.b.root, 0), rs)
                /\ ParentShrunk(m, n, parent, nkp, rs)

\* the leaf of key k with its place under its parent, memory granted
Place(m, k) ==
    LET fl == find_leaf(path_reserved(m, TRUE).m, k)
        f == fl.frames[m.b.depth]
    IN  [leaf |-> fl.leaf, parent |-> f.node, pos |-> f.pos, nkp |-> f.num_keys]

\* the delete of k, done, left a leaf that is not the root with fewer than
\* LHALF keys; r is what delete returned
Underflowed(m, k, r) ==
    /\ r.m.fault = "none"
    /\ r.ret = OK
    /\ m.b.depth > 0
    /\ num_keys(m, Place(m, k).leaf) <= LHALF

\* C28: a delete that leaves a leaf other than the root with fewer than
\* LHALF keys takes one record from the right sibling under the same parent
\* if that has more than LHALF keys, else one record from the left sibling
\* if that has more than LHALF keys, and frees no node; else it merges the
\* leaf into its left sibling if there is one, else the right sibling into
\* the leaf: one leaf is freed and the parent loses one key and one child
C28_underflow_order ==
    fault = "none" =>
        \A k \in PresentDeep : \A mallocOk \in PathMalloc :
            LET r == delete(Machine, k, mallocOk)
            IN  Underflowed(Machine, k, r) =>
                    LET pl == Place(Machine, k)
                    IN  Resolved(Machine, r.m, k, pl.leaf, pl.parent, pl.pos, pl.nkp)

\* a leaf between a left sibling with more than LHALF keys and a right
\* sibling with LHALF keys, under a parent of a tree of depth 2: the record
\* comes from the left
C28_witness ==
    /\ fault = "none"
    /\ b.depth = 2
    /\ \E k \in PresentDeep :
          /\ Underflowed(Machine, k, delete(Machine, k, TRUE))
          /\ LET pl == Place(Machine, k)
             IN  /\ pl.pos > 0
                 /\ pl.pos < pl.nkp
                 /\ num_keys(Machine, get_child(Machine, pl.parent, pl.pos + 1)) = LHALF
                 /\ num_keys(Machine, get_child(Machine, pl.parent, pl.pos - 1)) > LHALF
                 /\ delete(Machine, k, TRUE).m.mapped = mapped

\* the registry and the cursor count of n are those of m
SameRegistry(m, n) ==
    /\ n.b.cursor_list = m.b.cursor_list
    /\ get_active_storage(n).num_cursors = get_active_storage(m).num_cursors

\* what a cursor constructor that returned c made of machine m: n
Constructed(m, n, c) ==
    IF c # NULL
    THEN /\ c \notin Allocated(m)
         /\ n.b.cursor_list = <<c>> \o m.b.cursor_list
         /\ get_active_storage(n).num_cursors = get_active_storage(m).num_cursors + 1
         /\ \A c2 \in Allocated(m) : n.cur[c2] = m.cur[c2]
    ELSE /\ SameRegistry(m, n)
         /\ n.cur = m.cur

\* C29: while the tree exists the cursor count get_active_storage reports
\* is the number of cursors in the registry of the tree: first_record and
\* find_record that succeed add one cursor at the head and raise the count
\* by one, a constructor that fails on allocation changes neither,
\* free_cursor removes that cursor, lowers the count by one and leaves every
\* other cursor registered and unchanged, and insert, delete, find and
\* enumerate change neither the registry nor the count
C29_cursor_registry ==
    fault = "none" =>
        LET m == Machine
            free == DOMAIN cur \ Allocated(m)
        IN  /\ get_active_storage(m).num_cursors = Len(b.cursor_list)
            /\ {b.cursor_list[x] : x \in 1 .. Len(b.cursor_list)} = Allocated(m)
            /\ \A mallocOk \in (IF free = {} THEN {FALSE} ELSE BOOLEAN) :
                  /\ LET f == first_record(m, mallocOk)
                     IN  /\ f.m.fault = "none"
                         /\ f.c # NULL <=> mallocOk
                         /\ Constructed(m, f.m, f.c)
                  /\ \A k \in RegKeys : \A pathOk \in PathMalloc :
                        LET f == find_record(m, k, pathOk, mallocOk)
                        IN  f.m.fault = "none" => Constructed(m, f.m, f.c)
            /\ \A c \in Allocated(m) :
                  LET n == free_cursor(m, c)
                  IN  /\ n.fault = "none"
                      /\ n.b.cursor_list = Without(b.cursor_list, c)
                      /\ Len(n.b.cursor_list) = Len(b.cursor_list) - 1
                      /\ get_active_storage(n).num_cursors = Len(b.cursor_list) - 1
                      /\ \A c2 \in Allocated(m) \ {c} : n.cur[c2] = cur[c2]
            /\ \A k \in RegKeys : \A mallocOk \in PathMalloc :
                  /\ SameRegistry(m, find(m, k, mallocOk).m)
                  /\ SameRegistry(m, delete(m, k, mallocOk).m)
                  /\ \A refuseAt \in Refusals(k, mallocOk) :
                        SameRegistry(m, insert(m, k, FirstVal, mallocOk, refuseAt, NULL).m)
            /\ enumerate(m).fault = "none"

\* two cursors on a tree of two leaves after a delete; the cursor at the
\* head was made after the other cursor's elder had been freed from behind it
C29_witness ==
    /\ fault = "none"
    /\ b.depth = 1
    /\ ndel > 0
    /\ b.cursor_list = <<1, 2>>
    /\ get_active_storage(Machine).num_cursors = 2

\* C30: once next_record has returned NOTFOUND for a cursor the cursor stays
\* at the end: get_record and update_record return NOTFOUND, and every
\* further next_record returns NOTFOUND again without reading a null leaf
C30_stays_at_end ==
    fault = "none" =>
        \A c \in Allocated(Machine) :
            LET n == next_record(Machine, c)
                n2 == next_record(n.m, c)
            IN  n.m.fault = "none" /\ n.ret = NOTFOUND =>
                    /\ get_record(n.m, c).fault = "none"
                    /\ get_record(n.m, c).ret = NOTFOUND
                    /\ \A v \in Vals :
                          LET u == update_record(n.m, c, v)
                          IN  u.ret = NOTFOUND /\ u.m = n.m
                    /\ n2.m.fault = "none"
                    /\ n2.ret = NOTFOUND
                    /\ get_record(n2.m, c).ret = NOTFOUND

\* the inserts a caller makes between the delete of key k and the next
\* next_record: none, one or two keys, all different from k
OtherInserts(k) ==
    {<<>>} \cup {<<k1>> : k1 \in Keys \ {k}}
           \cup {<<k1, k2>> : k1 \in Keys \ {k}, k2 \in Keys \ {k}}

\* the records of the tree of m whose key is greater than k
RecsAfter(m, k) ==
    {enumerate(m).seq[x] : x \in {y \in 1 .. Len(enumerate(m).seq) : enumerate(m).seq[y][1] > k}}

\* C31: the record a cursor is at is deleted and other keys are inserted
\* before the cursor is advanced: the next next_record positions the cursor
\* at the record with the smallest key greater than k in the tree at the
\* time of the call, or returns NOTFOUND if there is none
C31_delete_insert_next ==
    fault = "none" =>
        \A c \in Valid(Machine) : \A seq \in OtherInserts(get_record(Machine, c).k) :
            LET g == get_record(Machine, c)
                d == delete(Machine, g.k, TRUE)
                s == BuildSeq(d.m, seq)
                n == next_record(s, c)
                h == get_record(n.m, c)
                R == RecsAfter(s, g.k)
            IN  d.m.fault = "none" /\ d.ret = OK /\ s.fault = "none" =>
                    /\ n.m.fault = "none"
                    /\ IF R = {}
                       THEN n.ret = NOTFOUND
                       ELSE /\ n.ret = OK
                            /\ h.ret = OK
                            /\ \E r \in R : /\ r = <<h.k, h.v>>
                                             /\ \A r2 \in R : r[1] <= r2[1]

====
